---- MODULE Spec2Model ----
(***************************************************************************)
(* Webhook event-processing pipeline of the payment service:               *)
(*   router.post('/webhook')      (routes file, src/unnamed/part_000)      *)
(*   handleWebhookEvent and the five event handlers                        *)
(*   sendSubscriptionNotification / attemptSend, updateUserSubscriptionEnd,*)
(*   sendInvoiceEmail             (src/controllers/stripeService.js)       *)
(*                                                                         *)
(* One webhook request is processed at a time.  Every outbound call        *)
(* (billing gateway, database service, notification service) is one step   *)
(* whose outcome is chosen by the environment.  The billing gateway, the   *)
(* database service and the notification service are external; the model   *)
(* keeps the part of their state the handlers write: the user projection,  *)
(* the subscription records and the delivered notifications.               *)
(***************************************************************************)
EXTENDS Integers, Sequences, FiniteSets, TLC

VARIABLES
    pc,          \* position of the request in the route / handler code
    req,         \* the inbound HTTP request (headers, raw body, process configuration)
    event,       \* the event object built by the route (line 177-184 or 194)
    invoked,     \* handlers invoked by handleWebhookEvent, in order
    hweCalled,   \* stripeService.handleWebhookEvent was called (route line 207)
    hweResult,   \* "pending", "returned" (true) or "threw"
    exc,         \* the error in flight or last thrown ("none" when there is none)
    calls,       \* outbound calls with their outcome, in the order they were answered
    responses,   \* HTTP responses written to res, in order
    userEmail,   \* local userEmail of the running handler
    userId,      \* local userId of handleCheckoutSessionCompleted
    subscription,\* local subscription of the running handler
    ntype,       \* type argument of the running sendSubscriptionNotification
    ndata,       \* data argument of the running sendSubscriptionNotification
    currentRetry,\* currentRetry of the running sendSubscriptionNotification
    waits,       \* backoff delays (ms) slept by the running sendSubscriptionNotification
    nres,        \* outcome of the handler's notification: "none", "running", "sent", "failed"
    attemptError,\* error caught by the last attemptSend (line 585), "none" when there is none
    dbError,     \* how the last failed call to the database service failed ("none": no failure)
    past,        \* earlier deliveries of this event: what each one was answered and did
    parked,      \* the request suspended at an await while this one runs (its own state)
    sess,        \* the running createSubscriptionSession call
    cancel,      \* the running call of the subscription controller (create or cancel)
    boot,        \* the start of the process: process.env and SUBSCRIPTION_PLANS
    dbUser,      \* database service: the user record reached by /users/subscription/{email}
    dbSubs,      \* database service: subscription records, in creation order
    outbox       \* notification service: notifications accepted (POST answered 2xx)

vars == <<pc, req, event, invoked, hweCalled, hweResult, exc, calls, responses,
          userEmail, userId, subscription, ntype, ndata, currentRetry, waits, nres,
          attemptError, dbError, past, parked, sess, cancel, boot, dbUser, dbSubs, outbox>>

----------------------------------------------------------------------------
(* Values *)

\* An email value as JavaScript sees it: a string (its characters) or null.
Str(cs) == [isString |-> TRUE, chars |-> cs]
NullEmail == [isString |-> FALSE, chars |-> <<>>]
GoodEmail == Str(<<"u", "@", "x">>)
NoAtEmail == Str(<<"u", "x">>)
\* a value that is not a string although it holds an address (the array
\* ['u@x'], say)
NotAString == [isString |-> FALSE, chars |-> <<"u", "@", "x">>]

\* event.data.object._customerMock as the handlers read it
NoMock == [present |-> FALSE, email |-> NullEmail]
Mock(e) == [present |-> TRUE, email |-> e]
CustomerMocks == {NoMock, Mock(GoodEmail), Mock(NoAtEmail), Mock(NotAString)}

\* A subscription object (the fields the handlers read): unit_amount and
\* productName are items.data[0].price.unit_amount and
\* items.data[0].price.product.name ("undefined": not there);
\* current_period_end 0: the object has no current_period_end (undefined);
\* items "data": items.data[0] is there; "nodata": the object has `items` but
\* items.data is not there; "absent": the object has no `items`.
NoSub == [present |-> FALSE, id |-> "none", customer |-> "none", status |-> "none",
          cancel_at_period_end |-> FALSE, current_period_start |-> 0,
          current_period_end |-> 0, items |-> "data", unit_amount |-> 0,
          productName |-> "undefined", currency |-> "undefined"]
Sub(st, cape) ==
    [present |-> TRUE, id |-> "sub_1", customer |-> "cus_1", status |-> st,
     cancel_at_period_end |-> cape, current_period_start |-> 10,
     current_period_end |-> 40, items |-> "data", unit_amount |-> 1000,
     productName |-> "undefined", currency |-> "undefined"]
\* Subscriptions whose first item's price is 10.00 with neither product name
\* nor currency, and one at 14.99 usd of the product 'Gold'.
Subscriptions ==
    {Sub(st, cape) : st \in {"active", "past_due"}, cape \in BOOLEAN}
    \cup {[Sub("active", FALSE) EXCEPT !.unit_amount = 1499, !.productName = "Gold",
                                       !.currency = "usd"]}

\* data.object._subscriptionMock is whatever the sender wrote: a subscription
\* as the gateway returns it, or an object that lacks current_period_end,
\* whose `items` has no `data`, or that has no `items`.
SubscriptionMocks ==
    Subscriptions
    \cup {[Sub("active", FALSE) EXCEPT !.current_period_end = 0],
          [Sub("active", FALSE) EXCEPT !.items = "nodata"],
          [Sub("active", FALSE) EXCEPT !.items = "absent"],
          [Sub("active", FALSE) EXCEPT !.current_period_end = 0, !.items = "nodata"]}

\* A provider invoice object (the fields the handlers read); NoInv is an
\* object that has none of them (they read as undefined).
NoInv == [present |-> FALSE, id |-> "undefined", amount_due |-> 0, currency |-> "undefined"]
Inv(amount, cur) == [present |-> TRUE, id |-> "in_1", amount_due |-> amount, currency |-> cur]

HandledTypes == {"checkout.session.completed", "invoice.paid", "invoice.payment_failed",
                 "customer.subscription.updated", "customer.subscription.deleted"}
EventTypes == HandledTypes \cup {"customer.created"}

\* The raw body: its shape decides JSON.parse and the structure check;
\* type is payload.type, customerMock is the _customerMock the body carries,
\* at its top level (mockAt "payload") or in payload.data.object ("object"),
\* sub carries the subscription fields of payload.data.object (the object
\* itself for customer.subscription.*), subMock is data.object._subscriptionMock,
\* inv carries the invoice fields of payload.data.object (invoice.* events).
\* shapes: "notjson", "notype", "nodata", "noobject", "ok"
Body(sh, ty, cm, sub, sm, inv) ==
    [shape |-> sh, type |-> ty, customerMock |-> cm, mockAt |-> "payload", sub |-> sub,
     subMock |-> sm, inv |-> inv]
PlainBody(sh, ty) == Body(sh, ty, NoMock, NoSub, NoSub, NoInv)

\* Payloads of well-formed events, per type.
RichBodies ==
    {Body("ok", "checkout.session.completed", cm, NoSub, sm, NoInv) :
        cm \in CustomerMocks, sm \in {NoSub} \cup SubscriptionMocks}
    \cup {Body("ok", "customer.created", cm, NoSub, NoSub, NoInv) : cm \in CustomerMocks}
    \cup {Body("ok", "invoice.paid", cm, NoSub, NoSub, Inv(1999, "eur")) :
        cm \in CustomerMocks}
    \cup {Body("ok", "invoice.payment_failed", cm, NoSub, NoSub, inv) :
        cm \in CustomerMocks,
        inv \in {Inv(1999, "eur"), Inv(2500, "usd"), Inv(0, "eur"), Inv(1999, "undefined")}}
    \cup {Body("ok", "customer.subscription.deleted", cm, Sub("canceled", FALSE), NoSub, NoInv) :
        cm \in CustomerMocks}
    \cup {Body("ok", "customer.subscription.updated", cm, s, NoSub, NoInv) :
        cm \in CustomerMocks, s \in Subscriptions}

\* Bodies used to exercise the route: every shape, every type.
GateBodies ==
    {PlainBody("notjson", "none"), PlainBody("notype", "none")}
    \cup {PlainBody(sh, ty) : sh \in {"nodata", "noobject", "ok"}, ty \in EventTypes}
    \cup {Body("ok", ty, Mock(GoodEmail), NoSub, NoSub, NoInv) : ty \in EventTypes}


\* dbServiceUrl is DB_SERVICE_URL of stripeService (line 5), by default
\* 'http://localhost:3004'.
Request(cf, sec, sg, mk, b) ==
    [configured |-> cf, secretSet |-> sec, sig |-> sg, marker |-> mk, body |-> b,
     dbServiceUrl |-> "http://localhost:3004"]

\* Requests: every header combination on the route-level bodies, and every
\* payload through the two ways into the handlers (test marker, verified).  A
\* signature is valid when it was made over this very body with the
\* configured secret, whatever the body holds.  Paid invoices also reach a
\* process whose DB_SERVICE_URL was built from an unset variable.
Requests ==
  LET rs ==
            {Request(cf, sec, sg, mk, b) :
                cf \in BOOLEAN, sec \in BOOLEAN, sg \in {"absent", "invalid", "valid"},
                mk \in {"none", "x-test-mode", "x-request-id"},
                b \in GateBodies} \cup
            {Request(TRUE, TRUE, sg, mk, b) :
                sg \in {"valid", "invalid"}, mk \in {"none", "x-test-mode"},
                b \in RichBodies} \cup
            {Request(TRUE, TRUE, sg, mk, [b EXCEPT !.mockAt = "object"]) :
                sg \in {"valid", "invalid"}, mk \in {"none", "x-test-mode"},
                b \in {c \in RichBodies : c.customerMock.present}}
  IN rs \cup {[r EXCEPT !.dbServiceUrl = "http://undefined:3004/api"] :
                r \in {q \in rs : q.body.type = "invoice.paid" /\ q.body.shape = "ok"}}

NoReq == Request(FALSE, FALSE, "absent", "none", PlainBody("notjson", "none"))
NoEvent == [type |-> "none", shape |-> "ok", isTest |-> FALSE,
            customerMock |-> NoMock, sub |-> NoSub, subMock |-> NoSub, inv |-> NoInv]

Call(svc, op, ok) == [svc |-> svc, op |-> op, ok |-> ok]
Response(st, b) == [status |-> st, body |-> b]

\* Outcomes of an outbound HTTP call: "ok", an axios error carrying a
\* connection-level code, or "HTTP" (the service answered with an error status).
ConnCodes == {"ECONNREFUSED", "ETIMEDOUT", "ECONNABORTED", "ENOTFOUND"}
HttpOutcomes == {"ok", "HTTP"} \cup ConnCodes
\* The probe GET /health carries no timeout option, so it cannot end in axios'
\* "timeout of ...ms exceeded" (ECONNABORTED).
ProbeOutcomes == HttpOutcomes \ {"ECONNABORTED"}
StripeOutcomes == {"ok", "StripeError"}

\* What a failed call tells of the service: it answered with an error status
\* ("status"), it could not be reached (connection refused, name not
\* resolved), or it did not answer in time.
FailureOf(kind) ==
    CASE kind = "HTTP" -> "status"
      [] kind \in {"ECONNREFUSED", "ENOTFOUND"} -> "unreachable"
      [] kind \in {"ETIMEDOUT", "ECONNABORTED"} -> "timeout"

\* error.message of an axios error contains the word 'timeout' only for the
\* request timeout ("timeout of 10000ms exceeded", code ECONNABORTED).
MessageHasTimeout(kind) == kind = "ECONNABORTED"

----------------------------------------------------------------------------
(* Dates, as an instant in seconds counted from the epoch or from the time   *)
(* of processing: new Date(seconds * 1000), new Date(), and null             *)

\* `at` tells the deliveries apart: the time of processing of the first
\* delivery of an event is not the one of its second delivery (0: not a
\* processing time of this behaviour)
DateOf(seconds) == [base |-> "epoch", sec |-> seconds, at |-> 0]
NowPlus(seconds) == [base |-> "now", sec |-> seconds, at |-> Len(past) + 1]
NoDate == [base |-> "null", sec |-> 0, at |-> 0]
\* the time of a processing that took place before this behaviour
Earlier == [base |-> "now", sec |-> 0, at |-> 0]

----------------------------------------------------------------------------
(* The data argument of sendSubscriptionNotification and what its fields     *)
(* hold: strings ("undefined" for a property that is not there), dates, and  *)
(* an amount n/100 kept as the exact quotient                                *)

Undefined == "undefined"
Ratio(n, d) == [known |-> TRUE, num |-> n, den |-> d]
\* undefined, and undefined / 100 (NaN)
NoAmount == [known |-> FALSE, num |-> 0, den |-> 0]

\* `x || d` on a string, a date and an amount
OrString(x, d) == IF x = Undefined \/ x = "" THEN d ELSE x
OrDate(x, d) == IF x = NoDate THEN d ELSE x
OrAmount(x, d) == IF x.known /\ x.num # 0 THEN x ELSE d

NoData ==
    [subscriptionId |-> Undefined, planType |-> Undefined, startDate |-> NoDate,
     endDate |-> NoDate, amountDue |-> NoAmount, currency |-> Undefined,
     invoiceId |-> Undefined]

----------------------------------------------------------------------------
(* router.post('/webhook'): verification and structural validation *)

\* line 148: x-test-mode === 'true' || x-request-id?.includes('test')
isTestMode(r) == r.marker = "x-test-mode" \/ r.marker = "x-request-id"

\* line 150: isTestMode || !sig || !endpointSecret
BypassTaken(r) == isTestMode(r) \/ r.sig = "absent" \/ ~r.secretSet

\* line 156: JSON.parse(rawBody) succeeds
ParsesAsJson(b) == b.shape # "notjson"

\* line 169: payload.type && payload.data && payload.data.object
StructureValid(b) == b.shape = "ok"

\* lines 177-191: the event built from the parsed payload in the bypass branch
\* (which went through the structure check, so it has data.object); a
\* top-level payload._customerMock is copied onto event.data.object, and one
\* that sits in data.object already stays there.
TestEvent(b) ==
    [type |-> b.type, shape |-> "ok", isTest |-> TRUE,
     customerMock |-> b.customerMock, sub |-> b.sub, subMock |-> b.subMock,
     inv |-> b.inv]

\* line 194: stripe.webhooks.constructEvent returns the parsed body as it is
\* (no _isTest, a top-level _customerMock is not copied onto event.data.object,
\* one that sits in data.object is part of the event, and a body without
\* type, data or data.object stays without it).
ConstructedEvent(b) ==
    [type |-> b.type, shape |-> b.shape, isTest |-> FALSE,
     customerMock |-> IF b.mockAt = "object" THEN b.customerMock ELSE NoMock,
     sub |-> b.sub, subMock |-> b.subMock, inv |-> b.inv]

\* line 194: constructEvent throws on a missing/mismatched signature, and on a
\* body that is not JSON.
ConstructEventSucceeds(r) == r.sig = "valid" /\ ParsesAsJson(r.body)

\* lines 146-200: TRUE when the route goes on to line 202 with an event
GatePasses(r) ==
    IF BypassTaken(r)
    THEN ParsesAsJson(r.body) /\ StructureValid(r.body)
    ELSE ConstructEventSucceeds(r)

GateEvent(r) == IF BypassTaken(r) THEN TestEvent(r.body) ELSE ConstructedEvent(r.body)

----------------------------------------------------------------------------
(* handleWebhookEvent: dispatch *)

\* lines 89-112: the switch on event.type ("none" is the default branch)
HandlerFor(type) ==
    CASE type = "checkout.session.completed" -> "handleCheckoutSessionCompleted"
      [] type = "invoice.paid" -> "handleInvoicePaid"
      [] type = "invoice.payment_failed" -> "handlePaymentFailed"
      [] type = "customer.subscription.updated" -> "handleSubscriptionUpdated"
      [] type = "customer.subscription.deleted" -> "handleSubscriptionDeleted"
      [] OTHER -> "none"

\* first position of each handler
EntryOf(h) ==
    CASE h = "handleCheckoutSessionCompleted" -> "co_customer"
      [] h = "handleInvoicePaid" -> "ip_start"
      [] h = "handlePaymentFailed" -> "pf_customer"
      [] h = "handleSubscriptionUpdated" -> "su_customer"
      [] h = "handleSubscriptionDeleted" -> "sd_customer"

Handler == IF invoked = <<>> THEN "none" ELSE invoked[Len(invoked)]

\* the handler returned: handleWebhookEvent returns true (line 114)
Returns == hweResult' = "returned" /\ pc' = "respond"
\* an error leaves the handler: rethrown by its catch and by line 118
Throws(kind) == hweResult' = "threw" /\ pc' = "respond" /\ exc' = kind

----------------------------------------------------------------------------
(* Initial state *)

\* variant: autoRenew copies cancel_at_period_end instead of negating it
subscriptionData_autoRenewCopied(sub, uid) ==
    [userId |-> uid,
     planType |-> OrString(sub.productName, "Service Premium"),
     startDate |-> DateOf(sub.current_period_start),
     endDate |-> DateOf(sub.current_period_end),
     status |-> sub.status,
     stripeSubscriptionId |-> sub.id,
     stripeCustomerId |-> sub.customer,
     isActive |-> (sub.status = "active"),
     autoRenew |-> sub.cancel_at_period_end,
     lastPaymentDate |-> NowPlus(0),
     nextPaymentDate |-> DateOf(sub.current_period_end),
     amount |-> IF sub.items = "data" THEN Ratio(sub.unit_amount, 100) ELSE NoAmount,
     currency |-> OrString(sub.currency, "eur")]

\* variant: the end date is counted from the time of processing
subscriptionData_endFromNow(sub, uid) ==
    [userId |-> uid,
     planType |-> OrString(sub.productName, "Service Premium"),
     startDate |-> DateOf(sub.current_period_start),
     endDate |-> NowPlus(sub.current_period_end),
     status |-> sub.status,
     stripeSubscriptionId |-> sub.id,
     stripeCustomerId |-> sub.customer,
     isActive |-> (sub.status = "active"),
     autoRenew |-> ~sub.cancel_at_period_end,
     lastPaymentDate |-> NowPlus(0),
     nextPaymentDate |-> DateOf(sub.current_period_end),
     amount |-> IF sub.items = "data" THEN Ratio(sub.unit_amount, 100) ELSE NoAmount,
     currency |-> OrString(sub.currency, "eur")]

\* lines 173-187: the Subscription record handleCheckoutSessionCompleted posts
\* (amount is unit_amount / 100, kept as the exact quotient; without `items`
\* the optional chain of line 185 gives undefined, and undefined / 100)
subscriptionData(sub, uid) ==
    [userId |-> uid,
     planType |-> OrString(sub.productName, "Service Premium"),
     startDate |-> DateOf(sub.current_period_start),
     endDate |-> DateOf(sub.current_period_end),
     status |-> sub.status,
     stripeSubscriptionId |-> sub.id,
     stripeCustomerId |-> sub.customer,
     isActive |-> (sub.status = "active"),
     autoRenew |-> ~sub.cancel_at_period_end,
     lastPaymentDate |-> NowPlus(0),
     nextPaymentDate |-> DateOf(sub.current_period_end),
     amount |-> IF sub.items = "data" THEN Ratio(sub.unit_amount, 100) ELSE NoAmount,
     currency |-> OrString(sub.currency, "eur")]

\* The user projection the database service holds for the customer's email.
UserRecord(isSub, subId, endDate) ==
    [isSubscribed |-> isSub, subscriptionId |-> subId, subscriptionEndDate |-> endDate]

\* The database service either knows no subscription of the user yet, or holds
\* the active subscription an earlier checkout created.
InitialStores ==
    {[user |-> UserRecord(FALSE, "none", NoDate), subs |-> <<>>],
     [user |-> UserRecord(TRUE, "sub_1", DateOf(40)),
      subs |-> <<[subscriptionData(Sub("active", FALSE), "user_1")
                    EXCEPT !.lastPaymentDate = Earlier]>>]}

\* No earlier delivery, no other request in progress, no session call, no
\* cancellation call, and a process whose start is not followed.
NoParked == [present |-> FALSE]
NoSess == [pc |-> "none"]
NoCancel == [pc |-> "none"]
NoBoot == [pc |-> "none"]

Init ==
    /\ past = <<>>
    /\ parked = NoParked
    /\ sess = NoSess
    /\ cancel = NoCancel
    /\ boot = NoBoot
    /\ dbError = "none"
    /\ pc = "idle"
    /\ req = NoReq
    /\ event = NoEvent
    /\ invoked = <<>>
    /\ hweCalled = FALSE
    /\ hweResult = "pending"
    /\ exc = "none"
    /\ calls = <<>>
    /\ responses = <<>>
    /\ userEmail = NullEmail
    /\ userId = "none"
    /\ subscription = NoSub
    /\ ntype = "none"
    /\ ndata = NoData
    /\ currentRetry = 0
    /\ waits = <<>>
    /\ nres = "none"
    /\ attemptError = "none"
    /\ \E st \in InitialStores : dbUser = st.user /\ dbSubs = st.subs
    /\ outbox = <<>>

handlerVars == <<invoked, hweCalled, hweResult, exc, calls, userEmail, userId, subscription,
                 dbError>>
aside == <<past, parked, sess, cancel, boot>>
notifVars == <<ntype, ndata, currentRetry, waits, nres, attemptError>>
retryVars == <<currentRetry, waits, nres, attemptError>>
stores == <<dbUser, dbSubs, outbox>>

----------------------------------------------------------------------------
(* router.post('/webhook') *)

\* A webhook request arrives (route line 113).
Receive ==
    /\ pc = "idle"
    /\ \E r \in Requests : req' = r
    /\ pc' = "route"
    /\ UNCHANGED <<event, responses>>
    /\ UNCHANGED <<handlerVars, notifVars, stores, aside>>

\* lines 119-200: configuration check, then verification or the bypass branch
\* with JSON parsing and the structure check.
WebhookGate ==
    /\ pc = "route"
    /\ IF ~req.configured
       THEN /\ responses' = Append(responses, Response(500, "error"))
            /\ pc' = "done"
            /\ UNCHANGED event
       ELSE IF GatePasses(req)
       THEN /\ event' = GateEvent(req)
            /\ pc' = "handle"
            /\ UNCHANGED responses
       ELSE /\ responses' = Append(responses, Response(400, "error"))
            /\ pc' = "done"
            /\ UNCHANGED event
    /\ UNCHANGED req
    /\ UNCHANGED <<handlerVars, notifVars, stores, aside>>

\* variant: a delivery of an event that was processed before is dropped as a
\* duplicate, no handler runs
handleWebhookEvent_deduplicated ==
    /\ pc = "handle"
    /\ hweCalled' = TRUE
    /\ LET h == HandlerFor(event.type) IN
       IF h = "none" \/ past # <<>>
       THEN Returns /\ UNCHANGED <<invoked, exc>>
       ELSE IF event.shape = "nodata"
       THEN Throws("TypeError") /\ UNCHANGED invoked
       ELSE IF event.shape = "noobject"
       THEN Throws("TypeError") /\ invoked' = Append(invoked, h)
       ELSE /\ invoked' = Append(invoked, h)
            /\ pc' = EntryOf(h)
            /\ UNCHANGED <<hweResult, exc>>
    /\ UNCHANGED <<req, event, responses, calls, userEmail, userId, subscription, dbError>>
    /\ UNCHANGED <<notifVars, stores, aside>>

\* route line 207 and stripeService lines 84-120: handleWebhookEvent is called
\* and switches on event.type; the default branch only logs.  A case of a
\* handled type reads event.data.object for the argument of its handler: a
\* TypeError when the event has no data (no handler is called); when it has
\* data but no object the handler is called with undefined and throws a
\* TypeError at its first read (lines 127, 273, 305, 335, 368).  Both are
\* rethrown at line 118.
handleWebhookEvent ==
    /\ pc = "handle"
    /\ hweCalled' = TRUE
    /\ LET h == HandlerFor(event.type) IN
       IF h = "none"
       THEN Returns /\ UNCHANGED <<invoked, exc>>
       ELSE IF event.shape = "nodata"
       THEN Throws("TypeError") /\ UNCHANGED invoked
       ELSE IF event.shape = "noobject"
       THEN Throws("TypeError") /\ invoked' = Append(invoked, h)
       ELSE /\ invoked' = Append(invoked, h)
            /\ pc' = EntryOf(h)
            /\ UNCHANGED <<hweResult, exc>>
    /\ UNCHANGED <<req, event, responses, calls, userEmail, userId, subscription, dbError>>
    /\ UNCHANGED <<notifVars, stores, aside>>

\* variant: the route acknowledges whatever handleWebhookEvent did
ResponseAfter_alwaysAck(result) == Response(200, "received")

\* route lines 210 and 221: res.json({received: true}) when handleWebhookEvent
\* returned, res.status(500).json({error}) when it threw
ResponseAfter(result) ==
    IF result = "returned" THEN Response(200, "received") ELSE Response(500, "error")

\* route lines 202-222
Respond ==
    /\ pc = "respond"
    /\ responses' = Append(responses, ResponseAfter(hweResult))
    /\ pc' = "done"
    /\ UNCHANGED <<req, event>>
    /\ UNCHANGED <<handlerVars, notifVars, stores, aside>>

----------------------------------------------------------------------------
(* sendSubscriptionNotification and attemptSend *)

maxRetries == 3
initialBackoff == 1000

\* variant: the test for '@' is missing
EmailValid_noAtTest(e) ==
    /\ e.isString
    /\ Len(e.chars) > 0

\* line 484: !email || typeof email !== 'string' || !email.includes('@')
EmailValid(e) ==
    /\ e.isString
    /\ Len(e.chars) > 0
    /\ \E i \in 1..Len(e.chars) : e.chars[i] = "@"

\* a JavaScript truthiness test of an email value (lines 132, 273, 305, 335,
\* 368): the empty string and null are falsy, any other string and any array
\* are truthy
Truthy(e) == IF e.isString THEN Len(e.chars) > 0 ELSE e # NullEmail

\* lines 494-548: the payload of each notification type (30*24*60*60 s is
\* 2592000 s); <<>> is the empty object
Payload(type, email, data) ==
    CASE type = "new" ->
            [email |-> email,
             subscriptionData |->
                [subscriptionId |-> data.subscriptionId,
                 planType |-> OrString(data.planType, "Premium"),
                 startDate |-> OrDate(data.startDate, NowPlus(0)),
                 endDate |-> OrDate(data.endDate, NowPlus(2592000))]]
      [] type \in {"ended", "cancelled"} ->
            [email |-> email,
             subscriptionData |->
                [subscriptionId |-> data.subscriptionId,
                 endDate |-> OrDate(data.endDate, NowPlus(0))]]
      [] type = "payment_failed" ->
            [email |-> email,
             paymentData |->
                [amountDue |-> OrAmount(data.amountDue,
                                       \* the string '?'
                                       [known |-> FALSE, num |-> 0, den |-> 1]),
                 currency |-> OrString(data.currency, "EUR"),
                 invoiceId |-> OrString(data.invoiceId, "N/A")]]
      [] type = "cancellation_scheduled" ->
            [email |-> email,
             subscriptionData |-> [endDate |-> OrDate(data.endDate, NowPlus(2592000))]]
      [] type = "reactivated" ->
            [email |-> email, subscriptionData |-> <<>>]
      [] OTHER -> <<>>

\* variant: the default branch sends to an endpoint named after the type
EndpointPath_defaultEndpoint(type) ==
    CASE type = "new" -> "/notifications/subscription/start"
      [] type \in {"ended", "cancelled"} -> "/notifications/subscription/cancelled"
      [] type = "payment_failed" -> "/notifications/subscription/payment-failed"
      [] type = "cancellation_scheduled" -> "/notifications/subscription/expiring-soon"
      [] type = "reactivated" -> "/notifications/subscription/reactivated"
      [] OTHER -> "/notifications/subscription/" \o type

\* lines 494-548: the endpoint of each notification type ("none": the default
\* branch, which throws)
EndpointPath(type) ==
    CASE type = "new" -> "/notifications/subscription/start"
      [] type \in {"ended", "cancelled"} -> "/notifications/subscription/cancelled"
      [] type = "payment_failed" -> "/notifications/subscription/payment-failed"
      [] type = "cancellation_scheduled" -> "/notifications/subscription/expiring-soon"
      [] type = "reactivated" -> "/notifications/subscription/reactivated"
      [] OTHER -> "none"

\* lines 600-606: the error is a connection or timeout error
IsConnectionError(code, messageHasTimeout) == code \in ConnCodes \/ messageHasTimeout

\* variant: the exponent is the retry number itself
Backoff_exponentOff(n) == initialBackoff * 2 ^ n

\* line 610: initialBackoff * Math.pow(2, currentRetry - 1)
Backoff(n) == initialBackoff * 2 ^ (n - 1)

\* The handlers that wrap their sendSubscriptionNotification call in a
\* try/catch that only logs (lines 241-255); the others let the error leave.
NotificationErrorSwallowed(h) == h = "handleCheckoutSessionCompleted"

reqVars == <<req, event, responses, invoked, hweCalled, aside>>
routeVars == <<reqVars, dbError>>
locals == <<userEmail, userId, subscription>>

Continue(next) == pc' = next /\ UNCHANGED <<hweResult, exc>>

\* variant: handleSubscriptionDeleted writes the user projection once more
\* after its notification was delivered
NotificationEnds_thenWrite(failed, kind) ==
    IF /\ Handler = "handleSubscriptionDeleted"
       /\ ~failed
       /\ Cardinality({i \in 1..Len(calls) : calls[i].op = "PUT /users/subscription"}) < 2
    THEN nres' = "sent" /\ Continue("sd_putUser")
    ELSE /\ nres' = IF failed THEN "failed" ELSE "sent"
         /\ IF failed /\ ~NotificationErrorSwallowed(Handler)
            THEN Throws(kind)
            ELSE Returns /\ UNCHANGED exc

\* sendSubscriptionNotification settled: the handler's continuation.
NotificationEnds(failed, kind) ==
    /\ nres' = IF failed THEN "failed" ELSE "sent"
    /\ IF failed /\ ~NotificationErrorSwallowed(Handler)
       THEN Throws(kind)
       ELSE Returns /\ UNCHANGED exc

\* lines 472-556: validation of email and type, endpoint and payload.
sendSubscriptionNotification ==
    /\ pc = "notify"
    /\ currentRetry' = 0
    /\ waits' = <<>>
    /\ attemptError' = "none"
    /\ IF ~EmailValid(userEmail)
       THEN NotificationEnds(TRUE, "InvalidEmail")
       ELSE IF EndpointPath(ntype) = "none"
       THEN NotificationEnds(TRUE, "UnknownType")
       ELSE nres' = "running" /\ Continue("n_probe")
    /\ UNCHANGED <<routeVars, locals, calls, ntype, ndata, stores>>

\* the Error thrown at line 571 for a failed probe: it has no code and its
\* message embeds the message of the probe's error

\* variant: the retry test is currentRetry <= maxRetries
AttemptFailed_oneMoreRetry(code, messageHasTimeout, kind) ==
    /\ attemptError' = kind
    /\ IF IsConnectionError(code, messageHasTimeout) /\ currentRetry <= maxRetries
       THEN /\ currentRetry' = currentRetry + 1
            /\ waits' = Append(waits, Backoff(currentRetry + 1))
            /\ Continue("n_probe")
            /\ UNCHANGED nres
       ELSE /\ NotificationEnds(TRUE, kind)
            /\ UNCHANGED <<currentRetry, waits>>

\* variant: every error of an attempt is retried while retries are left
AttemptFailed_retriesAnyError(code, messageHasTimeout, kind) ==
    /\ attemptError' = kind
    /\ IF currentRetry < maxRetries
       THEN /\ currentRetry' = currentRetry + 1
            /\ waits' = Append(waits, Backoff(currentRetry + 1))
            /\ Continue("n_probe")
            /\ UNCHANGED nres
       ELSE /\ NotificationEnds(TRUE, kind)
            /\ UNCHANGED <<currentRetry, waits>>

\* variant: the delay before a retry never ends
AttemptFailed_sleepNeverResolves(code, messageHasTimeout, kind) ==
    /\ attemptError' = kind
    /\ IF IsConnectionError(code, messageHasTimeout) /\ currentRetry < maxRetries
       THEN /\ currentRetry' = currentRetry + 1
            /\ waits' = Append(waits, Backoff(currentRetry + 1))
            /\ Continue("n_sleep")
            /\ UNCHANGED nres
       ELSE /\ NotificationEnds(TRUE, kind)
            /\ UNCHANGED <<currentRetry, waits>>

\* variant: a retry goes straight to the POST, without a new probe
AttemptFailed_retryWithoutProbe(code, messageHasTimeout, kind) ==
    /\ attemptError' = kind
    /\ IF IsConnectionError(code, messageHasTimeout) /\ currentRetry < maxRetries
       THEN /\ currentRetry' = currentRetry + 1
            /\ waits' = Append(waits, Backoff(currentRetry + 1))
            /\ Continue("n_post")
            /\ UNCHANGED nres
       ELSE /\ NotificationEnds(TRUE, kind)
            /\ UNCHANGED <<currentRetry, waits>>

\* lines 585-621, the catch of attemptSend: a connection or timeout error is
\* retried after the backoff delay while currentRetry < maxRetries; any other
\* error, and the error of the last retry, is rethrown.
AttemptFailed(code, messageHasTimeout, kind) ==
    /\ attemptError' = kind
    /\ IF IsConnectionError(code, messageHasTimeout) /\ currentRetry < maxRetries
       THEN /\ currentRetry' = currentRetry + 1
            /\ waits' = Append(waits, Backoff(currentRetry + 1))
            /\ Continue("n_probe")
            /\ UNCHANGED nres
       ELSE /\ NotificationEnds(TRUE, kind)
            /\ UNCHANGED <<currentRetry, waits>>

\* lines 565-572: the probe GET /health; its failure is rethrown as a new
\* Error that has no code and whose message embeds the probe's message.
attemptSend_probe ==
    /\ pc = "n_probe"
    /\ \E o \in ProbeOutcomes :
        /\ calls' = Append(calls, Call("notification", "GET /health", o = "ok"))
        /\ IF o = "ok"
           THEN Continue("n_post") /\ UNCHANGED retryVars
           ELSE AttemptFailed("none", MessageHasTimeout(o), "inaccessible: " \o o)
    /\ UNCHANGED <<routeVars, locals, ntype, ndata, stores>>

\* variant: after a first accepted POST the notification is sent once more
attemptSend_post_sendsAgain ==
    /\ pc = "n_post"
    /\ \E o \in HttpOutcomes :
        /\ calls' = Append(calls, Call("notification", "POST " \o EndpointPath(ntype), o = "ok"))
        /\ IF o = "ok"
           THEN /\ outbox' = Append(outbox,
                        [to |-> userEmail, path |-> EndpointPath(ntype), category |-> ntype,
                         payload |-> Payload(ntype, userEmail, ndata)])
                /\ IF outbox = <<>>
                   THEN Continue("n_probe") /\ UNCHANGED nres
                   ELSE NotificationEnds(FALSE, "none")
                /\ UNCHANGED <<currentRetry, waits, attemptError>>
           ELSE /\ AttemptFailed(o, MessageHasTimeout(o), o)
                /\ UNCHANGED outbox
    /\ UNCHANGED <<routeVars, locals, ntype, ndata, dbUser, dbSubs>>

\* lines 574-584: the POST to the endpoint of the type
attemptSend_post ==
    /\ pc = "n_post"
    /\ \E o \in HttpOutcomes :
        /\ calls' = Append(calls, Call("notification", "POST " \o EndpointPath(ntype), o = "ok"))
        /\ IF o = "ok"
           THEN /\ outbox' = Append(outbox,
                        [to |-> userEmail, path |-> EndpointPath(ntype), category |-> ntype,
                         payload |-> Payload(ntype, userEmail, ndata)])
                /\ NotificationEnds(FALSE, "none")
                /\ UNCHANGED <<currentRetry, waits, attemptError>>
           ELSE /\ AttemptFailed(o, MessageHasTimeout(o), o)
                /\ UNCHANGED outbox
    /\ UNCHANGED <<routeVars, locals, ntype, ndata, dbUser, dbSubs>>

----------------------------------------------------------------------------
(* Resolution of the customer email, common to the handlers *)

\* `object._customerMock && object._customerMock.email`
UsesCustomerMock == event.customerMock.present /\ Truthy(event.customerMock.email)

\* The email comes from the mock, or from stripe.customers.retrieve; a gateway
\* error leaves the handler.  `next` is the position after the resolution.
ResolveCustomerEmail(next) ==
    IF UsesCustomerMock
    THEN /\ userEmail' = event.customerMock.email
         /\ Continue(next)
         /\ UNCHANGED calls
    ELSE \E o \in StripeOutcomes, e \in {GoodEmail, NullEmail} :
         /\ calls' = Append(calls, Call("stripe", "customers.retrieve", o = "ok"))
         /\ IF o = "ok"
            THEN userEmail' = e /\ Continue(next)
            ELSE Throws(o) /\ UNCHANGED userEmail

----------------------------------------------------------------------------
(* handleCheckoutSessionCompleted *)

\* lines 127-141
checkout_customer ==
    /\ pc = "co_customer"
    /\ ResolveCustomerEmail("co_getUser")
    /\ UNCHANGED <<routeVars, userId, subscription, notifVars, stores>>

\* GET /users/email/{email}: the email is written into the URL as a string
\* (an array as its elements); the database service knows its users by a
\* well-formed email address, so only such an address can be found.
UserLookupOutcomes(e) ==
    IF \E i \in 1..Len(e.chars) : e.chars[i] = "@"
    THEN HttpOutcomes ELSE HttpOutcomes \ {"ok"}

\* variant: a failed lookup is only logged and processing goes on
checkout_getUser_swallowed ==
    /\ pc = "co_getUser"
    /\ \E o \in UserLookupOutcomes(userEmail) :
        /\ calls' = Append(calls, Call("db", "GET /users/email", o = "ok"))
        /\ dbError' = IF o = "ok" THEN dbError ELSE FailureOf(o)
        /\ userId' = IF o = "ok" THEN "user_1" ELSE userId
        /\ Continue("co_getSub")
    /\ UNCHANGED <<reqVars, userEmail, subscription, notifVars, stores>>

\* lines 144-152: the user is resolved by email; a failure is rethrown
checkout_getUser ==
    /\ pc = "co_getUser"
    /\ \E o \in UserLookupOutcomes(userEmail) :
        /\ calls' = Append(calls, Call("db", "GET /users/email", o = "ok"))
        /\ dbError' = IF o = "ok" THEN dbError ELSE FailureOf(o)
        /\ IF o = "ok"
           THEN userId' = "user_1" /\ Continue("co_getSub")
           ELSE Throws(o) /\ UNCHANGED userId
    /\ UNCHANGED <<reqVars, userEmail, subscription, notifVars, stores>>

\* lines 169-175: building subscriptionData throws on a subscription without
\* current_period_end (line 170: toISOString of an invalid date, RangeError)
\* and on one whose items has no data (line 175: items?.data[0], TypeError)
SubscriptionDataThrows(sub) == sub.current_period_end = 0 \/ sub.items = "nodata"

\* variant: a gateway error on the subscription detail leaves the handler
checkout_getSubscription_rethrows ==
    /\ pc = "co_getSub"
    /\ IF event.subMock.present
       THEN /\ subscription' = event.subMock
            /\ Continue(IF SubscriptionDataThrows(event.subMock)
                        THEN "co_getUser2" ELSE "co_postSub")
            /\ UNCHANGED calls
       ELSE \E o \in StripeOutcomes, s \in Subscriptions :
            /\ calls' = Append(calls, Call("stripe", "subscriptions.retrieve", o = "ok"))
            /\ IF o = "ok"
               THEN subscription' = s /\ Continue("co_postSub")
               ELSE UNCHANGED subscription /\ Throws(o)
    /\ UNCHANGED <<routeVars, userEmail, userId, notifVars, stores>>

\* lines 155-187: the subscription detail, from the mock or the gateway; a
\* gateway error, and an error thrown while subscriptionData is built, is
\* caught at line 215 and only logged: no POST /subscriptions follows
checkout_getSubscription ==
    /\ pc = "co_getSub"
    /\ IF event.subMock.present
       THEN /\ subscription' = event.subMock
            /\ Continue(IF SubscriptionDataThrows(event.subMock)
                        THEN "co_getUser2" ELSE "co_postSub")
            /\ UNCHANGED calls
       ELSE \E o \in StripeOutcomes, s \in Subscriptions :
            /\ calls' = Append(calls, Call("stripe", "subscriptions.retrieve", o = "ok"))
            /\ IF o = "ok"
               THEN subscription' = s /\ Continue("co_postSub")
               ELSE UNCHANGED subscription /\ Continue("co_getUser2")
    /\ UNCHANGED <<routeVars, userEmail, userId, notifVars, stores>>

\* variant: a failed POST /subscriptions is sent a second time
checkout_postSubscription_retried ==
    /\ pc = "co_postSub"
    /\ \E o \in HttpOutcomes :
        /\ calls' = Append(calls, Call("db", "POST /subscriptions", o = "ok"))
        /\ dbError' = IF o = "ok" THEN dbError ELSE FailureOf(o)
        /\ IF o = "ok"
           THEN /\ dbSubs' = Append(dbSubs, subscriptionData(subscription, userId))
                /\ Continue("co_getUser2")
           ELSE /\ UNCHANGED dbSubs
                /\ Continue(IF \E i \in 1..Len(calls) : calls[i].op = "POST /subscriptions"
                            THEN "co_dbHealth" ELSE "co_postSub")
    /\ UNCHANGED <<reqVars, locals, notifVars, dbUser, outbox>>

\* lines 168-205: POST /subscriptions with subscriptionData; a failure is logged
checkout_postSubscription ==
    /\ pc = "co_postSub"
    /\ \E o \in HttpOutcomes :
        /\ calls' = Append(calls, Call("db", "POST /subscriptions", o = "ok"))
        /\ dbError' = IF o = "ok" THEN dbError ELSE FailureOf(o)
        /\ IF o = "ok"
           THEN /\ dbSubs' = Append(dbSubs, subscriptionData(subscription, userId))
                /\ Continue("co_getUser2")
           ELSE /\ UNCHANGED dbSubs
                /\ Continue("co_dbHealth")
    /\ UNCHANGED <<reqVars, locals, notifVars, dbUser, outbox>>

\* lines 206-213: after a failed POST, GET /health of the database service
checkout_dbHealth ==
    /\ pc = "co_dbHealth"
    /\ \E o \in HttpOutcomes :
        /\ calls' = Append(calls, Call("db", "GET /health", o = "ok"))
        /\ dbError' = IF o = "ok" THEN dbError ELSE FailureOf(o)
    /\ Continue("co_getUser2")
    /\ UNCHANGED <<reqVars, locals, notifVars, stores>>

\* lines 221-224: the user is fetched again; a failure is caught at line 234
checkout_getUserAgain ==
    /\ pc = "co_getUser2"
    /\ \E o \in UserLookupOutcomes(userEmail) :
        /\ calls' = Append(calls, Call("db", "GET /users/email", o = "ok"))
        /\ dbError' = IF o = "ok" THEN dbError ELSE FailureOf(o)
        /\ Continue(IF o = "ok" THEN "co_putUser" ELSE "co_notify")
    /\ UNCHANGED <<reqVars, locals, notifVars, stores>>

\* variant: `subscriptionId` is in scope at line 229 and the PUT is sent
checkout_putUser_sent ==
    /\ pc = "co_putUser"
    /\ \E o \in HttpOutcomes :
        /\ calls' = Append(calls, Call("db", "PUT /users/subscription", o = "ok"))
        /\ dbUser' = IF o = "ok"
                     THEN UserRecord(TRUE, "id", DateOf(subscription.current_period_end))
                     ELSE dbUser
    /\ Continue("co_notify")
    /\ UNCHANGED <<routeVars, locals, notifVars, dbSubs, outbox>>

\* lines 226-237: the arguments of axios.put are evaluated first, and the object
\* literal reads `subscriptionId` (line 229), an identifier declared by `let`
\* at line 190 inside the try block of lines 155-214 and so not bound here:
\* a ReferenceError is thrown before axios.put is called, caught at line 234
\* and only logged.
checkout_putUser ==
    /\ pc = "co_putUser"
    /\ Continue("co_notify")
    /\ UNCHANGED <<routeVars, locals, calls, notifVars, stores>>

\* session.subscription: the checkout session names the subscription it created

\* lines 244-250: the data of the 'new' notification; the dates come from the
\* subscription when it was obtained (30*24*60*60 s is 2592000 s)
NewSubscriptionData(sub) ==
    [NoData EXCEPT
        !.subscriptionId = "sub_1",
        !.planType = OrString(sub.productName, "Premium"),
        !.startDate = IF sub.current_period_start # 0
                      THEN DateOf(sub.current_period_start) ELSE NowPlus(0),
        !.endDate = IF sub.current_period_end # 0
                    THEN DateOf(sub.current_period_end) ELSE NowPlus(2592000)]

\* lines 240-255: sendSubscriptionNotification(userEmail, 'new', ...); its
\* data are built first, and line 247 (subscription?.items?.data[0]) throws a
\* TypeError on a subscription whose items has no data: caught at line 252,
\* sendSubscriptionNotification is not called and the handler returns
checkout_notify ==
    /\ pc = "co_notify"
    /\ IF subscription.present /\ subscription.items = "nodata"
       THEN Returns /\ UNCHANGED <<exc, ntype, ndata>>
       ELSE /\ ntype' = "new"
            /\ ndata' = NewSubscriptionData(subscription)
            /\ Continue("notify")
    /\ UNCHANGED <<routeVars, locals, calls, retryVars, stores>>

----------------------------------------------------------------------------------------------------------------------------------------
(* handlePaymentFailed *)

\* lines 302-311
paymentFailed_customer ==
    /\ pc = "pf_customer"
    /\ ResolveCustomerEmail("pf_notify")
    /\ UNCHANGED <<routeVars, userId, subscription, notifVars, stores>>

\* lines 315-317: invoiceId, amountDue (amount_due / 100) and currency
PaymentFailedData(inv) ==
    [NoData EXCEPT
        !.invoiceId = inv.id,
        !.amountDue = IF inv.present THEN Ratio(inv.amount_due, 100) ELSE NoAmount,
        !.currency = inv.currency]

\* lines 314-318: sendSubscriptionNotification(userEmail, 'payment_failed', ...)
paymentFailed_notify ==
    /\ pc = "pf_notify"
    /\ ntype' = "payment_failed"
    /\ ndata' = PaymentFailedData(event.inv)
    /\ Continue("notify")
    /\ UNCHANGED <<routeVars, locals, calls, retryVars, stores>>

----------------------------------------------------------------------------
(* handleSubscriptionUpdated *)

\* variant: 'reactivated' is sent whatever the status
UpdatedNotification_reactivatedAnyStatus(sub) ==
    IF sub.cancel_at_period_end THEN "cancellation_scheduled"
    ELSE "reactivated"

\* lines 343-351, the notification chosen from the subscription of the event:
\* "none" when neither branch is taken
UpdatedNotification(sub) ==
    IF sub.cancel_at_period_end THEN "cancellation_scheduled"
    ELSE IF sub.status = "active" /\ sub.cancel_at_period_end = FALSE THEN "reactivated"
    ELSE "none"

\* lines 345-350: 'cancellation_scheduled' carries the end of the period,
\* 'reactivated' is sent without data (the default {})
UpdatedData(n, sub) ==
    IF n = "cancellation_scheduled"
    THEN [NoData EXCEPT !.endDate = DateOf(sub.current_period_end)]
    ELSE NoData

\* lines 332-341
subscriptionUpdated_customer ==
    /\ pc = "su_customer"
    /\ ResolveCustomerEmail("su_notify")
    /\ UNCHANGED <<routeVars, userId, subscription, notifVars, stores>>

\* lines 343-353: at most one sendSubscriptionNotification, else the handler
\* returns
subscriptionUpdated_notify ==
    /\ pc = "su_notify"
    /\ LET n == UpdatedNotification(event.sub) IN
       IF n = "none"
       THEN Returns /\ UNCHANGED <<exc, ntype, ndata>>
       ELSE /\ ntype' = n
            /\ ndata' = UpdatedData(n, event.sub)
            /\ Continue("notify")
    /\ UNCHANGED <<routeVars, locals, calls, retryVars, stores>>

----------------------------------------------------------------------------
(* handleSubscriptionDeleted *)

\* lines 365-374
subscriptionDeleted_customer ==
    /\ pc = "sd_customer"
    /\ ResolveCustomerEmail("sd_putUser")
    /\ UNCHANGED <<routeVars, userId, subscription, notifVars, stores>>

\* variant: the update flips isSubscribed instead of clearing it
subscriptionDeleted_putUser_flips ==
    /\ pc = "sd_putUser"
    /\ \E o \in HttpOutcomes :
        /\ calls' = Append(calls, Call("db", "PUT /users/subscription", o = "ok"))
        /\ dbError' = IF o = "ok" THEN dbError ELSE FailureOf(o)
        /\ dbUser' = IF o = "ok"
                     THEN UserRecord(~dbUser.isSubscribed, "none", NowPlus(0))
                     ELSE dbUser
    /\ Continue("sd_notify")
    /\ UNCHANGED <<reqVars, locals, notifVars, dbSubs, outbox>>

\* variant: the catch of the user update rethrows
subscriptionDeleted_putUser_rethrows ==
    /\ pc = "sd_putUser"
    /\ \E o \in HttpOutcomes :
        /\ calls' = Append(calls, Call("db", "PUT /users/subscription", o = "ok"))
        /\ dbError' = IF o = "ok" THEN dbError ELSE FailureOf(o)
        /\ dbUser' = IF o = "ok" THEN UserRecord(FALSE, "none", NowPlus(0)) ELSE dbUser
        /\ IF o = "ok" THEN Continue("sd_notify") ELSE Throws(o)
    /\ UNCHANGED <<reqVars, locals, notifVars, dbSubs, outbox>>

\* variant: the catch of the user update rethrows an error that carries a
\* response of the database service (error.response)
subscriptionDeleted_putUser_rethrowsAnswered ==
    /\ pc = "sd_putUser"
    /\ \E o \in HttpOutcomes :
        /\ calls' = Append(calls, Call("db", "PUT /users/subscription", o = "ok"))
        /\ dbError' = IF o = "ok" THEN dbError ELSE FailureOf(o)
        /\ dbUser' = IF o = "ok" THEN UserRecord(FALSE, "none", NowPlus(0)) ELSE dbUser
        /\ IF o = "HTTP" THEN Throws(o) ELSE Continue("sd_notify")
    /\ UNCHANGED <<reqVars, locals, notifVars, dbSubs, outbox>>

\* lines 377-388: PUT /users/subscription/{email} with isSubscribed false,
\* subscriptionId null and the current time; a failure is only logged
subscriptionDeleted_putUser ==
    /\ pc = "sd_putUser"
    /\ \E o \in HttpOutcomes :
        /\ calls' = Append(calls, Call("db", "PUT /users/subscription", o = "ok"))
        /\ dbError' = IF o = "ok" THEN dbError ELSE FailureOf(o)
        /\ dbUser' = IF o = "ok" THEN UserRecord(FALSE, "none", NowPlus(0)) ELSE dbUser
    /\ Continue("sd_notify")
    /\ UNCHANGED <<reqVars, locals, notifVars, dbSubs, outbox>>

\* lines 391-395: sendSubscriptionNotification(userEmail, 'ended', ...), not
\* wrapped in a try/catch of its own
subscriptionDeleted_notify ==
    /\ pc = "sd_notify"
    /\ ntype' = "ended"
    /\ ndata' = [NoData EXCEPT
                    !.subscriptionId = IF event.sub.present THEN event.sub.id ELSE Undefined,
                    !.endDate = NowPlus(0)]
    /\ Continue("notify")
    /\ UNCHANGED <<routeVars, locals, calls, retryVars, stores>>

----------------------------------------------------------------------------
(* handleInvoicePaid, updateUserSubscriptionEnd, sendInvoiceEmail *)

\* lines 273-276: the test branch sets the email from the mock and a
\* subscription ending 30 days (2592000 s) from now
invoicePaid_start ==
    /\ pc = "ip_start"
    /\ Continue(IF UsesCustomerMock THEN "ip_updateEnd" ELSE "ip_sub")
    /\ userEmail' = IF UsesCustomerMock THEN event.customerMock.email ELSE userEmail
    /\ UNCHANGED <<routeVars, userId, subscription, calls, notifVars, stores>>

\* line 278: stripe.subscriptions.retrieve(invoice.subscription)
invoicePaid_subscription ==
    /\ pc = "ip_sub"
    /\ \E o \in StripeOutcomes, s \in Subscriptions :
        /\ calls' = Append(calls, Call("stripe", "subscriptions.retrieve", o = "ok"))
        /\ IF o = "ok"
           THEN subscription' = s /\ Continue("ip_customer")
           ELSE Throws(o) /\ UNCHANGED subscription
    /\ UNCHANGED <<routeVars, userEmail, userId, notifVars, stores>>

\* lines 279-280: stripe.customers.retrieve(invoice.customer)
invoicePaid_customer ==
    /\ pc = "ip_customer"
    /\ \E o \in StripeOutcomes, e \in {GoodEmail, NullEmail} :
        /\ calls' = Append(calls, Call("stripe", "customers.retrieve", o = "ok"))
        /\ IF o = "ok"
           THEN userEmail' = e /\ Continue("ip_updateEnd")
           ELSE Throws(o) /\ UNCHANGED userEmail
    /\ UNCHANGED <<routeVars, userId, subscription, notifVars, stores>>

\* line 284: new Date(subscription.current_period_end * 1000)
subscriptionEnd ==
    IF UsesCustomerMock THEN NowPlus(2592000)
                        ELSE DateOf(subscription.current_period_end)

\* line 445: DB_SERVICE_URL.includes('undefined'), on the URLs that occur
\* (DB_SERVICE_URL is never empty: line 5 gives it a default)
IncludesUndefined(url) == url = "http://undefined:3004/api"

\* lines 285 and 442-467: updateUserSubscriptionEnd(userEmail, subscriptionEnd),
\* a PUT /users/subscription/{email} carrying subscriptionEndDate only; when
\* DB_SERVICE_URL includes 'undefined' it returns without a call (445-448)
updateUserSubscriptionEnd ==
    /\ pc = "ip_updateEnd"
    /\ IF IncludesUndefined(req.dbServiceUrl)
       THEN /\ Continue(IF event.customerMock.present THEN "ii_post" ELSE "ii_invoice")
            /\ UNCHANGED <<calls, dbError, dbUser>>
       ELSE \E o \in HttpOutcomes :
            /\ calls' = Append(calls, Call("db", "PUT /users/subscription", o = "ok"))
            /\ dbError' = IF o = "ok" THEN dbError ELSE FailureOf(o)
            /\ dbUser' = IF o = "ok"
                         THEN [dbUser EXCEPT !.subscriptionEndDate = subscriptionEnd]
                         ELSE dbUser
            \* lines 455-461: a refused connection and a failed name resolution
            \* are swallowed, every other error is rethrown
            /\ IF o \in {"ok", "ECONNREFUSED", "ENOTFOUND"}
               THEN Continue(IF event.customerMock.present THEN "ii_post" ELSE "ii_invoice")
               ELSE Throws(o)
    /\ UNCHANGED <<reqVars, locals, notifVars, dbSubs, outbox>>

\* lines 643-648: sendInvoiceEmail fetches the invoice from the gateway; every
\* gateway error of lines 644-672 is caught at line 673 (default data are used).
\* `linked`: the invoice names a subscription and has lines (line 652).
sendInvoiceEmail_invoice ==
    /\ pc = "ii_invoice"
    /\ \E o \in StripeOutcomes, linked \in BOOLEAN :
        /\ calls' = Append(calls, Call("stripe", "invoices.retrieve", o = "ok"))
        /\ Continue(IF o = "ok" /\ linked THEN "ii_sub" ELSE "ii_post")
    /\ UNCHANGED <<routeVars, locals, notifVars, stores>>

\* line 653: stripe.subscriptions.retrieve(retrievedInvoice.subscription);
\* `priced`: its first item has a price (lines 654-656)
sendInvoiceEmail_subscription ==
    /\ pc = "ii_sub"
    /\ \E o \in StripeOutcomes, priced \in BOOLEAN :
        /\ calls' = Append(calls, Call("stripe", "subscriptions.retrieve", o = "ok"))
        /\ Continue(IF o = "ok" /\ priced THEN "ii_price" ELSE "ii_post")
    /\ UNCHANGED <<routeVars, locals, notifVars, stores>>

\* line 657: stripe.prices.retrieve(item.price.id)
sendInvoiceEmail_price ==
    /\ pc = "ii_price"
    /\ \E o \in StripeOutcomes :
        calls' = Append(calls, Call("stripe", "prices.retrieve", o = "ok"))
    /\ Continue("ii_post")
    /\ UNCHANGED <<routeVars, locals, notifVars, stores>>

\* lines 682-692: POST /notifications/invoice; an error is rethrown and leaves
\* handleInvoicePaid
sendInvoiceEmail_post ==
    /\ pc = "ii_post"
    /\ \E o \in HttpOutcomes :
        /\ calls' = Append(calls, Call("notification", "POST /notifications/invoice", o = "ok"))
        /\ IF o = "ok"
           THEN /\ outbox' = Append(outbox,
                        [to |-> userEmail, path |-> "/notifications/invoice",
                         category |-> "invoice",
                         payload |-> [to |-> userEmail, invoiceData |-> "invoiceData"]])
                /\ nres' = "sent"
                /\ Returns
                /\ UNCHANGED exc
           ELSE /\ UNCHANGED outbox
                /\ nres' = "failed"
                /\ Throws(o)
    /\ UNCHANGED <<routeVars, locals, ntype, ndata, currentRetry, waits, attemptError,
                   dbUser, dbSubs>>

----------------------------------------------------------------------------
(* The specification *)

Next ==
    \/ Receive
    \/ WebhookGate
    \/ handleWebhookEvent
    \/ Respond
    \/ checkout_customer
    \/ checkout_getUser
    \/ checkout_getSubscription
    \/ checkout_postSubscription
    \/ checkout_dbHealth
    \/ checkout_getUserAgain
    \/ checkout_putUser
    \/ checkout_notify
    \/ invoicePaid_start
    \/ invoicePaid_subscription
    \/ invoicePaid_customer
    \/ updateUserSubscriptionEnd
    \/ sendInvoiceEmail_invoice
    \/ sendInvoiceEmail_subscription
    \/ sendInvoiceEmail_price
    \/ sendInvoiceEmail_post
    \/ paymentFailed_customer
    \/ paymentFailed_notify
    \/ subscriptionUpdated_customer
    \/ subscriptionUpdated_notify
    \/ subscriptionDeleted_customer
    \/ subscriptionDeleted_putUser
    \/ subscriptionDeleted_notify
    \/ sendSubscriptionNotification
    \/ attemptSend_probe
    \/ attemptSend_post

Spec == Init /\ [][Next]_vars

\* Every outbound call returns or fails and every timer fires, and the event
\* loop then runs the continuation: a step that stays possible is taken.
SpecLive == Spec /\ WF_vars(Next)

----------------------------------------------------------------------------
(* sendSubscriptionNotification on its own: one call with arguments          *)
(* (email, type, data), its caller letting the error through                 *)


InitNotify ==
    /\ past = <<>>
    /\ parked = NoParked
    /\ sess = NoSess
    /\ cancel = NoCancel
    /\ boot = NoBoot
    /\ dbError = "none"
    /\ pc = "notify"
    /\ req = NoReq
    /\ event = NoEvent
    /\ invoked = <<>>
    /\ hweCalled = FALSE
    /\ hweResult = "pending"
    /\ exc = "none"
    /\ calls = <<>>
    /\ responses = <<>>
    /\ userEmail \in {GoodEmail, NoAtEmail, Str(<<>>), NullEmail, NotAString}
    /\ userId = "none"
    /\ subscription = NoSub
    /\ ntype \in {"new", "renewed", "cancelled", "payment_failed", "cancellation_scheduled",
                 "reactivated", "updated", "ended", "bogus"}
    /\ ndata \in {NoData, PaymentFailedData(Inv(2500, "usd")),
                 [NoData EXCEPT !.subscriptionId = "sub_1", !.endDate = DateOf(40)]}
    /\ currentRetry = 0
    /\ waits = <<>>
    /\ nres = "none"
    /\ attemptError = "none"
    /\ dbUser = UserRecord(FALSE, "none", NoDate)
    /\ dbSubs = <<>>
    /\ outbox = <<>>

NextNotify ==
    \/ sendSubscriptionNotification
    \/ attemptSend_probe
    \/ attemptSend_post

SpecNotify == InitNotify /\ [][NextNotify]_vars

----------------------------------------------------------------------------
(* The provider delivers the same event a second time (same id, type and     *)
(* payload): the route and the handlers run again on the stores the first    *)
(* delivery left                                                             *)

\* The events redelivered: a verified checkout, a checkout of the test path
\* with its mocks, a verified subscription deletion.
ReplayRequests ==
    {Request(TRUE, TRUE, "valid", "none",
             Body("ok", "checkout.session.completed", NoMock, NoSub, NoSub, NoInv)),
     Request(TRUE, TRUE, "invalid", "x-test-mode",
             Body("ok", "checkout.session.completed", Mock(GoodEmail), NoSub,
                  Sub("active", FALSE), NoInv)),
     Request(TRUE, TRUE, "valid", "none",
             Body("ok", "customer.subscription.deleted", NoMock, Sub("canceled", FALSE),
                  NoSub, NoInv))}

\* what the provider and the database service answered to this delivery
Answers == SelectSeq(calls, LAMBDA c : c.svc # "notification")

\* A finished delivery: the answers it got, what it did and the stores it left.
Delivery ==
    [answers |-> Answers, subscription |-> subscription, invoked |-> invoked,
     nres |-> nres, status |-> responses[1].status,
     user |-> dbUser, subs |-> dbSubs, sent |-> Len(outbox)]

InitReplay ==
    /\ past = <<>>
    /\ parked = NoParked
    /\ sess = NoSess
    /\ cancel = NoCancel
    /\ boot = NoBoot
    /\ dbError = "none"
    /\ pc = "route"
    /\ req \in ReplayRequests
    /\ event = NoEvent
    /\ invoked = <<>>
    /\ hweCalled = FALSE
    /\ hweResult = "pending"
    /\ exc = "none"
    /\ calls = <<>>
    /\ responses = <<>>
    /\ userEmail = NullEmail
    /\ userId = "none"
    /\ subscription = NoSub
    /\ ntype = "none"
    /\ ndata = NoData
    /\ currentRetry = 0
    /\ waits = <<>>
    /\ nres = "none"
    /\ attemptError = "none"
    /\ \E st \in InitialStores : dbUser = st.user /\ dbSubs = st.subs
    /\ outbox = <<>>

\* route line 113 once more: a new request with the same headers and body; it
\* starts with fresh locals, the services keep what they hold
Redeliver ==
    /\ pc = "done"
    /\ past = <<>>
    /\ past' = Append(past, Delivery)
    /\ pc' = "route"
    /\ event' = NoEvent
    /\ invoked' = <<>>
    /\ hweCalled' = FALSE
    /\ hweResult' = "pending"
    /\ exc' = "none"
    /\ calls' = <<>>
    /\ responses' = <<>>
    /\ userEmail' = NullEmail
    /\ userId' = "none"
    /\ subscription' = NoSub
    /\ ntype' = "none"
    /\ ndata' = NoData
    /\ currentRetry' = 0
    /\ waits' = <<>>
    /\ nres' = "none"
    /\ attemptError' = "none"
    /\ dbError' = "none"
    /\ UNCHANGED <<req, parked, sess, cancel, boot, stores>>

NextReplay ==
    \/ WebhookGate
    \/ handleWebhookEvent
    \/ Respond
    \/ checkout_customer
    \/ checkout_getUser
    \/ checkout_getSubscription
    \/ checkout_postSubscription
    \/ checkout_dbHealth
    \/ checkout_getUserAgain
    \/ checkout_putUser
    \/ checkout_notify
    \/ subscriptionDeleted_customer
    \/ subscriptionDeleted_putUser
    \/ subscriptionDeleted_notify
    \/ sendSubscriptionNotification
    \/ attemptSend_probe
    \/ attemptSend_post
    \/ Redeliver

SpecReplay == InitReplay /\ [][NextReplay]_vars

----------------------------------------------------------------------------
(* Two webhook requests in one process: Node runs one of them until it waits *)
(* for an outbound call, then may run the other; each has its own locals,    *)
(* the services are the same                                                 *)

\* Events about the same user and subscription, delivered on the test path.
ConcurrentRequests ==
    {Request(TRUE, TRUE, "invalid", "x-test-mode", b) :
        b \in {Body("ok", "checkout.session.completed", Mock(GoodEmail), NoSub,
                    Sub("active", FALSE), NoInv),
               Body("ok", "customer.subscription.deleted", Mock(GoodEmail),
                    Sub("canceled", FALSE), NoSub, NoInv),
               Body("ok", "invoice.paid", Mock(GoodEmail), NoSub, NoSub, Inv(1999, "eur"))}}
\* The two requests in flight: each kind of event is paired with every other
\* kind, deletions and paid invoices also with their like.
ConcurrentPairs ==
    {rs \in ConcurrentRequests \X ConcurrentRequests :
        \/ rs[1].body.type = "customer.subscription.deleted"
        \/ rs[2].body.type = "invoice.paid"}
\* The user of the events holds the subscription of an earlier checkout.
ConcurrentStores == {st \in InitialStores : st.subs # <<>>}

\* The state of one request: the variables of its route and handler frames.
Frame(p, r, e, inv, hc, hr, x, cs, rs, ue, ui, sub, nt, nd, cr, ws, nr, ae, de) ==
    [present |-> TRUE, pc |-> p, req |-> r, event |-> e, invoked |-> inv,
     hweCalled |-> hc, hweResult |-> hr, exc |-> x, calls |-> cs, responses |-> rs,
     userEmail |-> ue, userId |-> ui, subscription |-> sub, ntype |-> nt, ndata |-> nd,
     currentRetry |-> cr, waits |-> ws, nres |-> nr, attemptError |-> ae, dbError |-> de]
\* the request that runs
Running ==
    Frame(pc, req, event, invoked, hweCalled, hweResult, exc, calls, responses, userEmail,
          userId, subscription, ntype, ndata, currentRetry, waits, nres, attemptError,
          dbError)

InitConcurrent ==
    /\ past = <<>>
    /\ sess = NoSess
    /\ cancel = NoCancel
    /\ boot = NoBoot
    /\ \E rs \in ConcurrentPairs :
        /\ req = rs[1]
        \* the second request has arrived and not started
        /\ parked = Frame("route", rs[2], NoEvent, <<>>, FALSE, "pending", "none", <<>>, <<>>,
                          NullEmail, "none", NoSub, "none", NoData, 0, <<>>, "none", "none",
                          "none")
    /\ dbError = "none"
    /\ pc = "route"
    /\ event = NoEvent
    /\ invoked = <<>>
    /\ hweCalled = FALSE
    /\ hweResult = "pending"
    /\ exc = "none"
    /\ calls = <<>>
    /\ responses = <<>>
    /\ userEmail = NullEmail
    /\ userId = "none"
    /\ subscription = NoSub
    /\ ntype = "none"
    /\ ndata = NoData
    /\ currentRetry = 0
    /\ waits = <<>>
    /\ nres = "none"
    /\ attemptError = "none"
    /\ \E st \in ConcurrentStores : dbUser = st.user /\ dbSubs = st.subs
    /\ outbox = <<>>

\* The running request waits for the answer of an outbound call (an await of
\* the handlers or of attemptSend, the backoff sleep included), has ended, or
\* has not started.
Awaiting ==
    pc \in {"route", "done", "co_getUser", "co_postSub", "co_dbHealth", "co_getUser2",
            "ip_updateEnd", "ii_post", "sd_putUser", "n_probe", "n_post"}

\* variant: currentRetry is one counter of the module, the requests share it
Switch_sharedCounter ==
    /\ parked.present
    /\ parked.pc # "done"
    /\ Awaiting
    /\ parked' = Running
    /\ pc' = parked.pc
    /\ req' = parked.req
    /\ event' = parked.event
    /\ invoked' = parked.invoked
    /\ hweCalled' = parked.hweCalled
    /\ hweResult' = parked.hweResult
    /\ exc' = parked.exc
    /\ calls' = parked.calls
    /\ responses' = parked.responses
    /\ userEmail' = parked.userEmail
    /\ userId' = parked.userId
    /\ subscription' = parked.subscription
    /\ ntype' = parked.ntype
    /\ ndata' = parked.ndata
    /\ waits' = parked.waits
    /\ nres' = parked.nres
    /\ attemptError' = parked.attemptError
    /\ dbError' = parked.dbError
    /\ UNCHANGED <<currentRetry, past, sess, cancel, boot, stores>>

\* The event loop resumes the other request: the running one keeps its frame
\* (stripeService line 475: currentRetry is a `let` of each call of
\* sendSubscriptionNotification) and the services keep their stores.
Switch ==
    /\ parked.present
    /\ parked.pc # "done"
    /\ Awaiting
    /\ parked' = Running
    /\ pc' = parked.pc
    /\ req' = parked.req
    /\ event' = parked.event
    /\ invoked' = parked.invoked
    /\ hweCalled' = parked.hweCalled
    /\ hweResult' = parked.hweResult
    /\ exc' = parked.exc
    /\ calls' = parked.calls
    /\ responses' = parked.responses
    /\ userEmail' = parked.userEmail
    /\ userId' = parked.userId
    /\ subscription' = parked.subscription
    /\ ntype' = parked.ntype
    /\ ndata' = parked.ndata
    /\ currentRetry' = parked.currentRetry
    /\ waits' = parked.waits
    /\ nres' = parked.nres
    /\ attemptError' = parked.attemptError
    /\ dbError' = parked.dbError
    /\ UNCHANGED <<past, sess, cancel, boot, stores>>

NextConcurrent ==
    \/ WebhookGate
    \/ handleWebhookEvent
    \/ Respond
    \/ checkout_customer
    \/ checkout_getUser
    \/ checkout_getSubscription
    \/ checkout_postSubscription
    \/ checkout_dbHealth
    \/ checkout_getUserAgain
    \/ checkout_putUser
    \/ checkout_notify
    \/ invoicePaid_start
    \/ updateUserSubscriptionEnd
    \/ sendInvoiceEmail_post
    \/ subscriptionDeleted_customer
    \/ subscriptionDeleted_putUser
    \/ subscriptionDeleted_notify
    \/ sendSubscriptionNotification
    \/ attemptSend_probe
    \/ attemptSend_post
    \/ Switch

SpecConcurrent == InitConcurrent /\ [][NextConcurrent]_vars

----------------------------------------------------------------------------
(* createSubscriptionSession(customerId, planType, userEmail, successUrl,    *)
(* cancelUrl), stripeService lines 17-62                                     *)

\* planType values, as the characters of the string
PlanTypes ==
    {<<"m", "o", "n", "t", "h", "l", "y">>, <<"M", "o", "n", "t", "h", "l", "y">>,
     <<"M", "O", "N", "T", "H", "L", "Y">>, <<"y", "e", "a", "r", "l", "y">>,
     <<"Y", "E", "A", "R", "L", "Y">>, <<"w", "e", "e", "k", "l", "y">>}

\* String.prototype.toUpperCase on the letters that occur
UpperChar(c) ==
    CASE c = "a" -> "A" [] c = "e" -> "E" [] c = "h" -> "H" [] c = "k" -> "K"
      [] c = "l" -> "L" [] c = "m" -> "M" [] c = "n" -> "N" [] c = "o" -> "O"
      [] c = "r" -> "R" [] c = "t" -> "T" [] c = "w" -> "W" [] c = "y" -> "Y"
      [] OTHER -> c
toUpperCase(cs) == [i \in 1..Len(cs) |-> UpperChar(cs[i])]

\* process.env.STRIPE_MONTHLY_PLAN_ID / STRIPE_YEARLY_PLAN_ID: a price id, or
\* not set (undefined)
PlanIds == {"undefined", "price_1"}
Environments == [monthly : PlanIds, yearly : PlanIds]

\* variant: the plan is looked up under planType as it was given
PlanIdOf_caseSensitive(env, planType) ==
    CASE planType = <<"M", "O", "N", "T", "H", "L", "Y">> -> env.monthly
      [] planType = <<"Y", "E", "A", "R", "L", "Y">> -> env.yearly
      [] OTHER -> "undefined"

\* lines 9-12 and 20: SUBSCRIPTION_PLANS[planType.toUpperCase()]
PlanIdOf(env, planType) ==
    CASE toUpperCase(planType) = <<"M", "O", "N", "T", "H", "L", "Y">> -> env.monthly
      [] toUpperCase(planType) = <<"Y", "E", "A", "R", "L", "Y">> -> env.yearly
      [] OTHER -> "undefined"

\* the customerId argument: an existing customer, or none (null)
CustomerIds == {"null", "cus_1"}

\* A call createSubscriptionSession(customerId, planType, ...) in progress:
\* its arguments, the environment, its local customerId, the `customer` the
\* checkout session was asked for (line 40) and its `price` (line 44), and how
\* it ended.
Session(env, customerId, planType) ==
    [pc |-> "plan", env |-> env, arg |-> customerId, planType |-> planType,
     customerId |-> customerId, sessionFor |-> "undefined", price |-> "undefined",
     error |-> "none", result |-> [customerId |-> "undefined", sessionId |-> "undefined",
                                   url |-> "undefined"]]

InitSession ==
    /\ past = <<>>
    /\ parked = NoParked
    /\ \E env \in Environments, c \in CustomerIds, p \in PlanTypes :
        sess = Session(env, c, p)
    /\ cancel = NoCancel
    /\ boot = NoBoot
    /\ dbError = "none"
    /\ pc = "session"
    /\ req = NoReq
    /\ event = NoEvent
    /\ invoked = <<>>
    /\ hweCalled = FALSE
    /\ hweResult = "pending"
    /\ exc = "none"
    /\ calls = <<>>
    /\ responses = <<>>
    /\ userEmail = GoodEmail
    /\ userId = "none"
    /\ subscription = NoSub
    /\ ntype = "none"
    /\ ndata = NoData
    /\ currentRetry = 0
    /\ waits = <<>>
    /\ nres = "none"
    /\ attemptError = "none"
    /\ dbUser = UserRecord(FALSE, "none", NoDate)
    /\ dbSubs = <<>>
    /\ outbox = <<>>

sessionFrame ==
    <<pc, req, event, invoked, hweCalled, hweResult, exc, responses, userEmail, userId,
      subscription, notifVars, dbError, past, parked, cancel, boot, stores>>

\* variant: a customer is created whether or not an id was supplied
createSubscriptionSession_plan_alwaysCreates ==
    /\ sess.pc = "plan"
    /\ IF PlanIdOf(sess.env, sess.planType) = "undefined"
       THEN sess' = [sess EXCEPT !.pc = "threw", !.error = "Plan d'abonnement non valide"]
       ELSE sess' = [sess EXCEPT !.pc = "customer"]
    /\ UNCHANGED calls
    /\ UNCHANGED sessionFrame

\* lines 19-24 and 27-28: the plan id is looked up; without one the call
\* throws 'Plan d'abonnement non valide'
createSubscriptionSession_plan ==
    /\ sess.pc = "plan"
    /\ IF PlanIdOf(sess.env, sess.planType) = "undefined"
       THEN sess' = [sess EXCEPT !.pc = "threw", !.error = "Plan d'abonnement non valide"]
       ELSE sess' = [sess EXCEPT !.pc = IF sess.customerId = "null"
                                         THEN "customer" ELSE "session"]
    /\ UNCHANGED calls
    /\ UNCHANGED sessionFrame

\* lines 29-35: stripe.customers.create, its id becomes customerId
createSubscriptionSession_customer ==
    /\ sess.pc = "customer"
    /\ \E o \in StripeOutcomes :
        /\ calls' = Append(calls, Call("stripe", "customers.create", o = "ok"))
        /\ IF o = "ok"
           THEN sess' = [sess EXCEPT !.pc = "session", !.customerId = "cus_new"]
           ELSE sess' = [sess EXCEPT !.pc = "threw", !.error = o]
    /\ UNCHANGED sessionFrame

\* lines 39-57: stripe.checkout.sessions.create in subscription mode, then
\* {customerId, sessionId, url} is returned
createSubscriptionSession_session ==
    /\ sess.pc = "session"
    /\ \E o \in StripeOutcomes :
        /\ calls' = Append(calls, Call("stripe", "checkout.sessions.create", o = "ok"))
        /\ IF o = "ok"
           THEN sess' = [sess EXCEPT !.pc = "returned",
                                     !.sessionFor = sess.customerId,
                                     !.price = PlanIdOf(sess.env, sess.planType),
                                     !.result = [customerId |-> sess.customerId,
                                                 sessionId |-> "cs_1", url |-> "url_1"]]
           ELSE sess' = [sess EXCEPT !.pc = "threw", !.error = o,
                                     !.sessionFor = sess.customerId,
                                     !.price = PlanIdOf(sess.env, sess.planType)]
    /\ UNCHANGED sessionFrame

NextSession ==
    \/ createSubscriptionSession_plan
    \/ createSubscriptionSession_customer
    \/ createSubscriptionSession_session

SpecSession == InitSession /\ [][NextSession]_vars

----------------------------------------------------------------------------
(* Start of the process: server.js loads the routes, which load              *)
(* stripeService; initializeStripe provisions the plans; then the server     *)
(* listens and serves /create-subscription                                   *)

\* the ids of the prices createStripePlans creates (lines 79-105)
ProvisionedPlans == [monthly |-> "price_2", yearly |-> "price_3"]

\* The process at start: process.env after dotenv.config() (the plan ids,
\* STRIPE_SECRET_KEY set or not), SUBSCRIPTION_PLANS of stripeService not yet
\* evaluated, and the .env file not yet rewritten.
InitStartup ==
    /\ past = <<>>
    /\ parked = NoParked
    /\ sess = NoSess
    /\ cancel = NoCancel
    /\ \E env \in Environments, key \in BOOLEAN :
        boot = [pc |-> "load", env |-> env, secretKey |-> key, envWritten |-> FALSE,
                plans |-> [monthly |-> "undefined", yearly |-> "undefined"],
                dbHealth |-> "none", notificationHealth |-> "none", head |-> "none"]
    /\ dbError = "none"
    /\ pc = "startup"
    /\ req = NoReq
    /\ event = NoEvent
    /\ invoked = <<>>
    /\ hweCalled = FALSE
    /\ hweResult = "pending"
    /\ exc = "none"
    /\ calls = <<>>
    /\ responses = <<>>
    /\ userEmail = GoodEmail
    /\ userId = "none"
    /\ subscription = NoSub
    /\ ntype = "none"
    /\ ndata = NoData
    /\ currentRetry = 0
    /\ waits = <<>>
    /\ nres = "none"
    /\ attemptError = "none"
    /\ dbUser = UserRecord(FALSE, "none", NoDate)
    /\ dbSubs = <<>>
    /\ outbox = <<>>

\* server.js line 4, routes lines 7 and 25, stripeService lines 9-12: the
\* module is evaluated once and SUBSCRIPTION_PLANS takes the ids the
\* environment holds then
startup_loadStripeService ==
    /\ boot.pc = "load"
    /\ boot' = [boot EXCEPT !.pc = "provision", !.plans = boot.env]
    /\ UNCHANGED <<sess, calls>>
    /\ UNCHANGED <<pc, req, event, invoked, hweCalled, hweResult, exc, responses, userEmail,
                   userId, subscription, notifVars, dbError, past, parked, cancel, stores>>

\* server.js lines 55-60 and 89, create-stripe-plans lines 17-65:
\* createStripePlans(true) throws when STRIPE_SECRET_KEY is not set; it then
\* reads the .env file when there is one (fs.readFileSync, which can throw:
\* `envFile` is "unreadable") and lists the products; `listed`: a product
\* named 'Service Premium' is among them.  When createStripePlans throws the
\* server does not listen.
startup_createStripePlans ==
    /\ boot.pc = "provision"
    /\ \E envFile \in {"absent", "read", "unreadable"} :
       IF ~boot.secretKey \/ envFile = "unreadable"
       THEN boot' = [boot EXCEPT !.pc = "failed"] /\ UNCHANGED calls
       ELSE \E o \in StripeOutcomes, listed \in BOOLEAN :
            /\ calls' = Append(calls, Call("stripe", "products.list", o = "ok"))
            /\ boot' = [boot EXCEPT !.pc = IF o # "ok" THEN "failed"
                                           ELSE IF listed THEN "monthly" ELSE "product"]
    /\ UNCHANGED sess
    /\ UNCHANGED <<pc, req, event, invoked, hweCalled, hweResult, exc, responses, userEmail,
                   userId, subscription, notifVars, dbError, past, parked, cancel, stores>>

\* create-stripe-plans lines 67-75: stripe.products.create
createStripePlans_product ==
    /\ boot.pc = "product"
    /\ \E o \in StripeOutcomes :
        /\ calls' = Append(calls, Call("stripe", "products.create", o = "ok"))
        /\ boot' = [boot EXCEPT !.pc = IF o = "ok" THEN "monthly" ELSE "failed"]
    /\ UNCHANGED sess
    /\ UNCHANGED <<pc, req, event, invoked, hweCalled, hweResult, exc, responses, userEmail,
                   userId, subscription, notifVars, dbError, past, parked, cancel, stores>>

\* create-stripe-plans lines 78-90: stripe.prices.create of the monthly price
createStripePlans_monthlyPrice ==
    /\ boot.pc = "monthly"
    /\ \E o \in StripeOutcomes :
        /\ calls' = Append(calls, Call("stripe", "prices.create", o = "ok"))
        /\ boot' = [boot EXCEPT !.pc = IF o = "ok" THEN "yearly" ELSE "failed"]
    /\ UNCHANGED sess
    /\ UNCHANGED <<pc, req, event, invoked, hweCalled, hweResult, exc, responses, userEmail,
                   userId, subscription, notifVars, dbError, past, parked, cancel, stores>>

\* create-stripe-plans lines 94-163, server.js lines 61-65 and 89-90:
\* stripe.prices.create of the yearly price, then the .env file is rewritten
\* (fs.writeFileSync, which can throw), the two ids are assigned to
\* process.env and app.listen is called
createStripePlans_yearlyPrice ==
    /\ boot.pc = "yearly"
    /\ \E o \in StripeOutcomes, written \in BOOLEAN :
        /\ calls' = Append(calls, Call("stripe", "prices.create", o = "ok"))
        /\ boot' = IF o # "ok" THEN [boot EXCEPT !.pc = "failed"]
                   ELSE IF ~written THEN [boot EXCEPT !.pc = "failed"]
                   ELSE [boot EXCEPT !.pc = "listen", !.env = ProvisionedPlans,
                                     !.envWritten = TRUE]
    /\ UNCHANGED sess
    /\ UNCHANGED <<pc, req, event, invoked, hweCalled, hweResult, exc, responses, userEmail,
                   userId, subscription, notifVars, dbError, past, parked, cancel, stores>>

\* server.js lines 90-124: app.listen binds the port.  When the port cannot be
\* bound the server emits an error nobody listens to and the process ends.
\* Else the callback runs: it sends GET {DB_SERVICE_URL}/api/health and GET
\* {NOTIFICATION_SERVICE_URL}/health and returns without awaiting either;
\* from then on the server serves requests.
startup_listen ==
    /\ boot.pc = "listen"
    /\ \E bound \in BOOLEAN :
        boot' = IF bound
                THEN [boot EXCEPT !.pc = "listening", !.dbHealth = "sent",
                                  !.notificationHealth = "sent"]
                ELSE [boot EXCEPT !.pc = "failed"]
    /\ UNCHANGED <<sess, calls>>
    /\ UNCHANGED <<pc, req, event, invoked, hweCalled, hweResult, exc, responses, userEmail,
                   userId, subscription, notifVars, dbError, past, parked, cancel, stores>>

\* server.js lines 97-111: the database service answers the health request
\* (the request carries no timeout); on an answer the route /subscriptions is
\* tested with HEAD {DB_SERVICE_URL}/api/subscriptions/, on an error the error
\* is logged.  A call enters `calls` when its answer arrives.
listen_dbHealth ==
    /\ boot.dbHealth = "sent"
    /\ \E o \in ProbeOutcomes :
        /\ calls' = Append(calls, Call("db", "GET /api/health", o = "ok"))
        /\ boot' = [boot EXCEPT !.dbHealth = IF o = "ok" THEN "ok" ELSE "failed",
                                !.head = IF o = "ok" THEN "sent" ELSE @]
    /\ UNCHANGED sess
    /\ UNCHANGED <<pc, req, event, invoked, hweCalled, hweResult, exc, responses, userEmail,
                   userId, subscription, notifVars, dbError, past, parked, cancel, stores>>

\* server.js lines 117-119: the notification service answers the health
\* request; either outcome is only logged
listen_notificationHealth ==
    /\ boot.notificationHealth = "sent"
    /\ \E o \in ProbeOutcomes :
        /\ calls' = Append(calls, Call("notification", "GET /health", o = "ok"))
        /\ boot' = [boot EXCEPT !.notificationHealth = IF o = "ok" THEN "ok" ELSE "failed"]
    /\ UNCHANGED sess
    /\ UNCHANGED <<pc, req, event, invoked, hweCalled, hweResult, exc, responses, userEmail,
                   userId, subscription, notifVars, dbError, past, parked, cancel, stores>>

\* server.js lines 103-109: the answer to the HEAD request; every outcome
\* (answer, 404 or 405, any other error) is caught and logged
listen_headSubscriptions ==
    /\ boot.head = "sent"
    /\ \E o \in ProbeOutcomes :
        /\ calls' = Append(calls, Call("db", "HEAD /api/subscriptions/", o = "ok"))
        /\ boot' = [boot EXCEPT !.head = IF o = "ok" THEN "ok" ELSE "failed"]
    /\ UNCHANGED sess
    /\ UNCHANGED <<pc, req, event, invoked, hweCalled, hweResult, exc, responses, userEmail,
                   userId, subscription, notifVars, dbError, past, parked, cancel, stores>>

\* variant: the plan ids are read from process.env at the time of the call
PlansAtCall_readsEnvironment == boot.env

\* stripeService lines 9-12 and 20: createSubscriptionSession reads the
\* module constant SUBSCRIPTION_PLANS
PlansAtCall == boot.plans

\* routes lines 31-50: a /create-subscription request calls
\* createSubscriptionSession(customerId, planType, ...)
startup_request ==
    /\ boot.pc = "listening"
    /\ sess.pc = "none"
    /\ \E c \in CustomerIds, p \in PlanTypes : sess' = Session(PlansAtCall, c, p)
    /\ UNCHANGED <<boot, calls>>
    /\ UNCHANGED <<pc, req, event, invoked, hweCalled, hweResult, exc, responses, userEmail,
                   userId, subscription, notifVars, dbError, past, parked, cancel, stores>>

NextStartup ==
    \/ startup_loadStripeService
    \/ startup_createStripePlans
    \/ createStripePlans_product
    \/ createStripePlans_monthlyPrice
    \/ createStripePlans_yearlyPrice
    \/ startup_listen
    \/ listen_dbHealth
    \/ listen_notificationHealth
    \/ listen_headSubscriptions
    \/ startup_request
    \/ createSubscriptionSession_plan
    \/ createSubscriptionSession_customer
    \/ createSubscriptionSession_session

SpecStartup == InitStartup /\ [][NextStartup]_vars

----------------------------------------------------------------------------
(* The subscription controller: createSubscription(req, res), lines 8-115,   *)
(* and cancelSubscription(req, res), lines 118-163; one call is followed     *)

\* The database service holds no subscription record, or one record of a
\* subscription in one of its states; records are numbered from 1 in creation
\* order (their internal id).
CancelStores ==
    {<<>>} \cup {<<[subscriptionData(sub, "user_1") EXCEPT !.lastPaymentDate = Earlier]>> :
                    sub \in Subscriptions}

\* A call cancelSubscription in progress: its parameter
\* req.params.subscriptionId, the record it
\* fetched (`subscription`), the record the patch returned
\* (`updatedSubscription.data`), the email of the user, the error caught.
Cancellation(id) ==
    [fn |-> "cancelSubscription", pc |-> "lookup", id |-> id, subscription |-> NoSub,
     updated |-> NoSub, email |-> NullEmail, error |-> "none"]

InitCancel ==
    /\ past = <<>>
    /\ parked = NoParked
    /\ sess = NoSess
    /\ boot = NoBoot
    /\ \/ \E id \in {1, 2} : cancel = Cancellation(id)
       \* createSubscription with req.body {userId, planType, paymentMethodId}, in
       \* a process whose STRIPE_MONTHLY_PRICE_ID / STRIPE_YEARLY_PRICE_ID are env
       \/ \E env \in Environments, p \in PlanTypes :
            cancel = [fn |-> "createSubscription", pc |-> "cs_getUser", userId |-> "user_1",
                      planType |-> p, env |-> env, email |-> NullEmail,
                      customer |-> "undefined", subscription |-> NoSub, record |-> NoSub,
                      error |-> "none"]
    /\ dbError = "none"
    /\ pc = "cancel"
    /\ req = NoReq
    /\ event = NoEvent
    /\ invoked = <<>>
    /\ hweCalled = FALSE
    /\ hweResult = "pending"
    /\ exc = "none"
    /\ calls = <<>>
    /\ responses = <<>>
    /\ userEmail = NullEmail
    /\ userId = "none"
    /\ subscription = NoSub
    /\ ntype = "none"
    /\ ndata = NoData
    /\ currentRetry = 0
    /\ waits = <<>>
    /\ nres = "none"
    /\ attemptError = "none"
    /\ dbUser = UserRecord(TRUE, "sub_1", DateOf(40))
    /\ dbSubs \in CancelStores
    /\ outbox = <<>>

cancelFrame ==
    <<pc, req, event, invoked, hweCalled, hweResult, exc, userEmail, userId, subscription,
      notifVars, dbError, past, parked, sess, boot, dbUser>>

\* lines 105-112 and 155-161: the catch answers 500 with the message of the
\* error
CancelFails(kind) ==
    /\ cancel' = [cancel EXCEPT !.pc = "done", !.error = kind]
    /\ responses' = Append(responses, Response(500, "error"))

\* lines 126-128: GET /api/subscriptions/{subscriptionId}; the record is
\* found only when the database service holds it
cancelSubscription_lookup ==
    /\ cancel.pc = "lookup"
    /\ \E o \in IF cancel.id \in 1..Len(dbSubs) THEN HttpOutcomes ELSE HttpOutcomes \ {"ok"} :
        /\ calls' = Append(calls, Call("db", "GET /api/subscriptions", o = "ok"))
        /\ IF o = "ok"
           THEN /\ cancel' = [cancel EXCEPT !.pc = "delete",
                                            !.subscription = dbSubs[cancel.id]]
                /\ UNCHANGED responses
           ELSE CancelFails(o)
    /\ UNCHANGED <<dbSubs, outbox>>
    /\ UNCHANGED cancelFrame

\* variant: a failed provider deletion is ignored and the record is patched
cancelSubscription_delete_ignoresFailure ==
    /\ cancel.pc = "delete"
    /\ \E o \in StripeOutcomes :
        /\ calls' = Append(calls, Call("stripe", "subscriptions.del", o = "ok"))
        /\ cancel' = [cancel EXCEPT !.pc = "patch"]
        /\ UNCHANGED responses
    /\ UNCHANGED <<dbSubs, outbox>>
    /\ UNCHANGED cancelFrame

\* line 132: stripe.subscriptions.del(subscription.stripeSubscriptionId)
cancelSubscription_delete ==
    /\ cancel.pc = "delete"
    /\ \E o \in StripeOutcomes :
        /\ calls' = Append(calls, Call("stripe", "subscriptions.del", o = "ok"))
        /\ IF o = "ok"
           THEN cancel' = [cancel EXCEPT !.pc = "patch"] /\ UNCHANGED responses
           ELSE CancelFails(o)
    /\ UNCHANGED <<dbSubs, outbox>>
    /\ UNCHANGED cancelFrame

\* lines 137-141: PATCH /api/subscriptions/{subscriptionId} with status
\* 'cancelled' and isActive false; the service answers the patched record
cancelSubscription_patch ==
    /\ cancel.pc = "patch"
    /\ \E o \in HttpOutcomes :
        /\ calls' = Append(calls, Call("db", "PATCH /api/subscriptions", o = "ok"))
        /\ IF o = "ok"
           THEN /\ dbSubs' = [dbSubs EXCEPT ![cancel.id] =
                                [@ EXCEPT !.status = "cancelled", !.isActive = FALSE]]
                /\ cancel' = [cancel EXCEPT !.pc = "user", !.updated = dbSubs'[cancel.id]]
                /\ UNCHANGED responses
           ELSE CancelFails(o) /\ UNCHANGED dbSubs
    /\ UNCHANGED outbox
    /\ UNCHANGED cancelFrame

\* line 145: GET /api/users/{subscription.userId}
cancelSubscription_getUser ==
    /\ cancel.pc = "user"
    /\ \E o \in HttpOutcomes :
        /\ calls' = Append(calls, Call("db", "GET /api/users", o = "ok"))
        /\ IF o = "ok"
           THEN cancel' = [cancel EXCEPT !.pc = "notify", !.email = GoodEmail]
                /\ UNCHANGED responses
           ELSE CancelFails(o)
    /\ UNCHANGED <<dbSubs, outbox>>
    /\ UNCHANGED cancelFrame

\* lines 147-153: POST /notifications/subscription/cancelled, then
\* res.json({message: 'Abonnement annulé avec succès'})
cancelSubscription_notify ==
    /\ cancel.pc = "notify"
    /\ \E o \in HttpOutcomes :
        /\ calls' = Append(calls, Call("notification",
                                      "POST /notifications/subscription/cancelled", o = "ok"))
        /\ IF o = "ok"
           THEN /\ outbox' = Append(outbox,
                        [to |-> cancel.email, path |-> "/notifications/subscription/cancelled",
                         category |-> "cancelled",
                         payload |-> [email |-> cancel.email,
                                      subscriptionData |-> cancel.updated]])
                /\ cancel' = [cancel EXCEPT !.pc = "done"]
                /\ responses' = Append(responses, Response(200, "cancelled"))
           ELSE CancelFails(o) /\ UNCHANGED outbox
    /\ UNCHANGED dbSubs
    /\ UNCHANGED cancelFrame

\* lines 16-18: GET /api/users/{userId}
createSubscription_getUser ==
    /\ cancel.pc = "cs_getUser"
    /\ \E o \in HttpOutcomes :
        /\ calls' = Append(calls, Call("db", "GET /api/users", o = "ok"))
        /\ IF o = "ok"
           THEN cancel' = [cancel EXCEPT !.pc = "cs_list", !.email = GoodEmail]
                /\ UNCHANGED responses
           ELSE CancelFails(o)
    /\ UNCHANGED <<dbSubs, outbox>>
    /\ UNCHANGED cancelFrame

\* lines 23-27: stripe.customers.list({email}); `found`: the gateway has a
\* customer of this email, the first one is taken
createSubscription_customersList ==
    /\ cancel.pc = "cs_list"
    /\ \E o \in StripeOutcomes, found \in BOOLEAN :
        /\ calls' = Append(calls, Call("stripe", "customers.list", o = "ok"))
        /\ IF o = "ok"
           THEN /\ cancel' = [cancel EXCEPT
                                !.pc = IF found THEN "cs_subscribe" ELSE "cs_customer",
                                !.customer = IF found THEN "cus_1" ELSE @]
                /\ UNCHANGED responses
           ELSE CancelFails(o)
    /\ UNCHANGED <<dbSubs, outbox>>
    /\ UNCHANGED cancelFrame

\* lines 28-37: stripe.customers.create with the payment method
createSubscription_customersCreate ==
    /\ cancel.pc = "cs_customer"
    /\ \E o \in StripeOutcomes :
        /\ calls' = Append(calls, Call("stripe", "customers.create", o = "ok"))
        /\ IF o = "ok"
           THEN cancel' = [cancel EXCEPT !.pc = "cs_subscribe", !.customer = "cus_new"]
                /\ UNCHANGED responses
           ELSE CancelFails(o)
    /\ UNCHANGED <<dbSubs, outbox>>
    /\ UNCHANGED cancelFrame

\* lines 40-50: the price id is process.env['STRIPE_' + planType.toUpperCase()
\* + '_PRICE_ID'], read at the call; stripe.subscriptions.create with
\* payment_behavior 'default_incomplete' (the gateway refuses an item without
\* a price).  `intent`: the subscription's latest invoice has a payment intent.
createSubscription_subscriptionsCreate ==
    /\ cancel.pc = "cs_subscribe"
    /\ \E o \in IF PlanIdOf(cancel.env, cancel.planType) = "undefined"
                THEN {"StripeError"} ELSE StripeOutcomes,
          intent \in BOOLEAN :
        /\ calls' = Append(calls, Call("stripe", "subscriptions.create", o = "ok"))
        /\ IF o = "ok"
           THEN cancel' = [cancel EXCEPT
                            !.pc = "cs_post",
                            !.subscription =
                                [present |-> TRUE, id |-> "sub_2", customer |-> cancel.customer,
                                 status |-> "incomplete", unit_amount |-> 1499,
                                 currency |-> "eur", intent |-> intent]]
                /\ UNCHANGED responses
           ELSE CancelFails(o)
    /\ UNCHANGED <<dbSubs, outbox>>
    /\ UNCHANGED cancelFrame

\* lines 53-54: endDate.setDate(endDate.getDate() + 30) moves the date 30
\* calendar days forward at the same local time of day, in the time zone of
\* the process: 30 * 86400 s later, less or more the shift of the clocks of
\* the zone when they change within the 30 days (half an hour, one hour or
\* two hours, forward or back)
ThirtyLocalDays == {2592000 + shift : shift \in {-7200, -3600, -1800, 0, 1800, 3600, 7200}}

\* lines 52-74: the end date is 30 local calendar days from now; POST
\* /api/subscriptions with subscriptionData; a failure is caught at line 90
createSubscription_postSubscription ==
    /\ cancel.pc = "cs_post"
    /\ \E o \in HttpOutcomes, later \in ThirtyLocalDays :
        /\ calls' = Append(calls, Call("db", "POST /api/subscriptions", o = "ok"))
        /\ IF o = "ok"
           THEN LET record == [userId |-> cancel.userId,
                               planType |-> cancel.planType,
                               startDate |-> NowPlus(0),
                               endDate |-> NowPlus(later),
                               stripeSubscriptionId |-> cancel.subscription.id,
                               stripeCustomerId |-> cancel.customer,
                               amount |-> Ratio(cancel.subscription.unit_amount, 100),
                               currency |-> cancel.subscription.currency,
                               status |-> cancel.subscription.status]
                IN /\ dbSubs' = Append(dbSubs, record)
                   /\ cancel' = [cancel EXCEPT !.pc = "cs_notify", !.record = record]
           ELSE /\ cancel' = [cancel EXCEPT !.pc = "cs_health", !.error = o]
                /\ UNCHANGED dbSubs
    /\ UNCHANGED <<responses, outbox>>
    /\ UNCHANGED cancelFrame

\* lines 76-89: POST /notifications/subscription/start with the stored record,
\* then res.json({subscriptionId, clientSecret}); the read of
\* latest_invoice.payment_intent.client_secret throws a TypeError without a
\* payment intent; every error of lines 74-89 is caught at line 90
createSubscription_notify ==
    /\ cancel.pc = "cs_notify"
    /\ \E o \in HttpOutcomes :
        /\ calls' = Append(calls, Call("notification",
                                      "POST /notifications/subscription/start", o = "ok"))
        /\ IF o = "ok"
           THEN /\ outbox' = Append(outbox,
                        [to |-> cancel.email, path |-> "/notifications/subscription/start",
                         category |-> "new",
                         payload |-> [email |-> cancel.email,
                                      subscriptionData |-> cancel.record]])
                /\ IF cancel.subscription.intent
                   THEN /\ cancel' = [cancel EXCEPT !.pc = "done"]
                        /\ responses' = Append(responses, Response(200, "created"))
                   ELSE /\ cancel' = [cancel EXCEPT !.pc = "cs_health", !.error = "TypeError"]
                        /\ UNCHANGED responses
           ELSE /\ cancel' = [cancel EXCEPT !.pc = "cs_health", !.error = o]
                /\ UNCHANGED <<responses, outbox>>
    /\ UNCHANGED dbSubs
    /\ UNCHANGED cancelFrame

\* lines 90-103 and 105-113: GET /api/health of the database service, whose
\* error is only logged; the caught error is rethrown and answered 500
createSubscription_health ==
    /\ cancel.pc = "cs_health"
    /\ \E o \in HttpOutcomes :
        calls' = Append(calls, Call("db", "GET /api/health", o = "ok"))
    /\ CancelFails(cancel.error)
    /\ UNCHANGED <<dbSubs, outbox>>
    /\ UNCHANGED cancelFrame

NextCancel ==
    \/ createSubscription_getUser
    \/ createSubscription_customersList
    \/ createSubscription_customersCreate
    \/ createSubscription_subscriptionsCreate
    \/ createSubscription_postSubscription
    \/ createSubscription_notify
    \/ createSubscription_health
    \/ cancelSubscription_lookup
    \/ cancelSubscription_delete
    \/ cancelSubscription_patch
    \/ cancelSubscription_getUser
    \/ cancelSubscription_notify

SpecCancel == InitCancel /\ [][NextCancel]_vars

----------------------------------------------------------------------------
(* Properties *)

Done == pc = "done"
\* the notifications delivered: recipient, endpoint and category of each
Delivered ==
    [i \in 1..Len(outbox) |->
        [to |-> outbox[i].to, path |-> outbox[i].path, category |-> outbox[i].category]]
IsCheckout == hweCalled /\ event.type = "checkout.session.completed"
IsDeleted == hweCalled /\ event.type = "customer.subscription.deleted"
AllCallsSucceeded == \A i \in 1..Len(calls) : calls[i].ok
IsDbWrite(c) == c.svc = "db" /\ c.op \in {"POST /subscriptions", "PUT /users/subscription"}
CallsOf(op) == {i \in 1..Len(calls) : calls[i].op = op}
\* the route verifies the signature of this request (it does not take the bypass)
Verifies(r) == r.secretSet /\ r.sig # "absent" /\ r.marker = "none"

\* the handler the dispatch table of section 4.1 names for each handled type
C1_HandlerOf ==
    [t \in HandledTypes |->
        CASE t = "checkout.session.completed" -> "handleCheckoutSessionCompleted"
          [] t = "invoice.paid" -> "handleInvoicePaid"
          [] t = "invoice.payment_failed" -> "handlePaymentFailed"
          [] t = "customer.subscription.updated" -> "handleSubscriptionUpdated"
          [] t = "customer.subscription.deleted" -> "handleSubscriptionDeleted"]

\* C1 (as claimed): once handleWebhookEvent has been called, an event of a
\* handled type has had exactly one handler invoked, the one of its type; an
\* event of any other type has had no handler invoked and no outbound call
\* made, and handleWebhookEvent has returned success.  Before the call no
\* handler runs.
C1_ExactlyOneHandler ==
    /\ ~hweCalled => invoked = <<>>
    /\ hweCalled =>
        IF event.type \in HandledTypes
        THEN invoked = <<C1_HandlerOf[event.type]>>
        ELSE invoked = <<>> /\ calls = <<>> /\ hweResult = "returned"

\* C2 (as claimed): with a signing secret configured and no x-test-mode header,
\* handleWebhookEvent is called only with an event whose signature was
\* verified; the bypass is not taken.
C2_HandlerOnlyIfVerified ==
    (hweCalled /\ req.secretSet /\ req.marker # "x-test-mode")
        => (req.sig = "valid" /\ ~event.isTest)

\* C3 (as claimed): when the route verifies the signature and it does not
\* match, or the body is not JSON, or the event lacks type, data or
\* data.object, the request is rejected: handleWebhookEvent is never called,
\* no handler runs, no outbound call is made, nothing is written, and the
\* answer is not 200.
C3_RejectedBeforeSideEffects ==
    (pc # "idle" /\ ((Verifies(req) /\ req.sig # "valid") \/ req.body.shape # "ok"))
        => /\ ~hweCalled
           /\ invoked = <<>>
           /\ calls = <<>>
           /\ outbox = <<>>
           /\ \E st \in InitialStores : dbUser = st.user /\ dbSubs = st.subs
           /\ \A i \in 1..Len(responses) : responses[i].status # 200

\* the step of lines 146-200 the request went through failed: the
\* verification of the signature over the raw body (which also fails on a
\* body that is not JSON) when the route verifies, else the parsing and the
\* structural validation of the bypass branch
C4_ValidationFailed ==
    IF Verifies(req)
    THEN req.sig # "valid" \/ req.body.shape = "notjson"
    ELSE req.body.shape # "ok"

\* C4: a request has no response before it is done and exactly one when it is
\* done; on a configured route that response is 400 exactly when
\* verification or structural validation failed, and then handleWebhookEvent
\* was not called; it is 500 when handleWebhookEvent threw, and it is 200
\* {received:true} exactly when handleWebhookEvent returned without throwing.
C4_OneResponse ==
    /\ Len(responses) = IF Done THEN 1 ELSE 0
    /\ Done =>
        /\ (req.configured /\ C4_ValidationFailed) <=> responses[1].status = 400
        /\ responses[1].status = 400 => ~hweCalled
        /\ hweResult = "threw" => responses[1].status = 500
        /\ (responses[1].status = 200) <=> (hweResult = "returned")
        /\ (responses[1].status = 200) => responses[1].body = "received"

C4_Witness ==
    /\ Done
    /\ hweResult = "threw"
    /\ responses = <<Response(500, "error")>>

\* C5 (as claimed): whenever the notification dispatch of an event failed,
\* handleWebhookEvent returned success and the webhook was answered 200.
C5_NotificationFailureSwallowed ==
    (Done /\ nres = "failed")
        => (hweResult = "returned" /\ responses = <<Response(200, "received")>>)

\* C6 (as claimed): after a checkout-completed event all of whose external
\* calls succeeded, the database service has received the PUT of the user
\* record and the user is marked subscribed.
C6_UserMarkedSubscribed ==
    (Done /\ IsCheckout /\ AllCallsSucceeded)
        => /\ \E i \in 1..Len(calls) : calls[i] = Call("db", "PUT /users/subscription", TRUE)
           /\ dbUser.isSubscribed

C7_RecordBuilt == subscription.current_period_end # 0 /\ subscription.items # "nodata"
\* the resolved email is an address: a string holding '@'
C7_Address == userEmail.isString /\ \E i \in 1..Len(userEmail.chars) : userEmail.chars[i] = "@"

C8_WritesBeforeNotifications ==
    \A i, j \in 1..Len(calls) :
        (i < j /\ calls[i].svc = "notification") => ~IsDbWrite(calls[j])

C8_Witness ==
    /\ Done
    /\ IsDeleted
    /\ \E i, j \in 1..Len(calls) :
        i < j /\ IsDbWrite(calls[i]) /\ calls[j].svc = "notification"

\* C9: when the first lookup of the user of a checkout-completed event fails,
\* it is the last outbound call of the event: no Subscription record is
\* created, no user update is sent, no notification is dispatched, the error
\* leaves handleWebhookEvent and the webhook is answered 500.
C9_UserLookupFailurePropagates ==
    (IsCheckout /\ CallsOf("GET /users/email") # {}
        /\ ~calls[CHOOSE i \in CallsOf("GET /users/email") :
                    \A k \in CallsOf("GET /users/email") : i <= k].ok)
        => /\ calls[Len(calls)] = Call("db", "GET /users/email", FALSE)
           /\ Cardinality(CallsOf("GET /users/email")) = 1
           /\ \A i \in 1..Len(calls) : ~IsDbWrite(calls[i]) /\ calls[i].svc # "notification"
           /\ outbox = <<>>
           /\ nres = "none"
           /\ hweResult = "threw"
           /\ Done => responses = <<Response(500, "error")>>

C9_Witness ==
    /\ Done
    /\ IsCheckout
    /\ calls # <<>>
    /\ calls[Len(calls)] = Call("db", "GET /users/email", FALSE)
    /\ responses = <<Response(500, "error")>>

\* C10 (as claimed): after a customer.subscription.deleted event all of whose
\* external calls succeeded, for a subscription that has an internal record
\* keyed by its provider id, that record has status deleted/cancelled and
\* isActive false, the user has isSubscribed false, and exactly one 'ended'
\* notification was delivered to the resolved customer email.
C10_DeletedReconciled ==
    (Done /\ IsDeleted /\ AllCallsSucceeded /\ hweResult = "returned"
        /\ \E i \in 1..Len(dbSubs) : dbSubs[i].stripeSubscriptionId = event.sub.id)
        => /\ \A i \in 1..Len(dbSubs) :
                dbSubs[i].stripeSubscriptionId = event.sub.id
                    => dbSubs[i].status \in {"deleted", "cancelled"} /\ ~dbSubs[i].isActive
           /\ ~dbUser.isSubscribed
           /\ Delivered = <<[to |-> userEmail, path |-> "/notifications/subscription/cancelled",
                          category |-> "ended"]>>

----------------------------------------------------------------------------
(* Properties of the subscription-updated, invoice and payment-failed handlers *)

IsUpdated == hweCalled /\ event.type = "customer.subscription.updated"
IsInvoicePaid == hweCalled /\ event.type = "invoice.paid"
IsPaymentFailed == hweCalled /\ event.type = "invoice.payment_failed"
\* the internal Subscription records keyed by a provider subscription id
RecordsOf(id) == {i \in 1..Len(dbSubs) : dbSubs[i].stripeSubscriptionId = id}
DeliveredOf(categories) == {i \in 1..Len(outbox) : outbox[i].category \in categories}

\* C11 (as claimed): after a customer.subscription.updated event all of whose
\* external calls succeeded, for a subscription that has an internal record:
\* with cancel_at_period_end true a 'cancellation_scheduled'/'cancelled'
\* notification was delivered and the record has autoRenew false; with
\* cancel_at_period_end false and status 'active' an 'updated'/'reactivated'
\* notification was delivered and the record has autoRenew true.
C11_UpdatedReconciled ==
    (Done /\ IsUpdated /\ AllCallsSucceeded /\ hweResult = "returned"
        /\ event.sub.present /\ RecordsOf(event.sub.id) # {})
        => /\ event.sub.cancel_at_period_end
                => /\ DeliveredOf({"cancellation_scheduled", "cancelled"}) # {}
                   /\ \A i \in RecordsOf(event.sub.id) : ~dbSubs[i].autoRenew
           /\ (~event.sub.cancel_at_period_end /\ event.sub.status = "active")
                => /\ DeliveredOf({"updated", "reactivated"}) # {}
                   /\ \A i \in RecordsOf(event.sub.id) : dbSubs[i].autoRenew

\* C12 (as claimed): a customer.subscription.updated event whose provider
\* subscription id has no internal Subscription record is not acknowledged as
\* a success: the error leaves handleWebhookEvent.
C12_UpdatedWithoutRecordFails ==
    (Done /\ IsUpdated /\ AllCallsSucceeded /\ Truthy(userEmail)
        /\ event.sub.present /\ RecordsOf(event.sub.id) = {})
        => /\ hweResult = "threw"
           /\ responses # <<Response(200, "received")>>

\* C13 (as claimed): after an invoice.paid event of the provider all of whose
\* external calls succeeded, the stored subscription end date is the current
\* period end of the provider subscription, one 'renewed' notification was
\* dispatched, and one invoice receipt was posted to /notifications/invoice
\* for the resolved customer email.
C13_InvoicePaidRenews ==
    (Done /\ IsInvoicePaid /\ AllCallsSucceeded /\ hweResult = "returned"
        /\ ~event.customerMock.present /\ event.inv.present /\ Truthy(userEmail))
        => /\ dbUser.subscriptionEndDate = DateOf(subscription.current_period_end)
           /\ Cardinality(DeliveredOf({"renewed"})) = 1
           /\ Cardinality(DeliveredOf({"invoice"})) = 1
           /\ \A i \in DeliveredOf({"invoice"}) :
                outbox[i].to = userEmail /\ outbox[i].path = "/notifications/invoice"

\* C14 (as claimed): an invoice.payment_failed event makes no call to the
\* database service and leaves its records as they were; it dispatches at
\* most one notification, and exactly one when the handler returned; that
\* notification is the 'payment_failed' one, for the resolved customer email,
\* and it carries amount_due/100 and the currency of the invoice.
C14_PaymentFailedNotifiesOnly ==
    IsPaymentFailed
        => /\ \A i \in 1..Len(calls) : calls[i].svc # "db"
           /\ \E st \in InitialStores : dbUser = st.user /\ dbSubs = st.subs
           /\ ntype \in {"none", "payment_failed"}
           /\ Len(outbox) <= 1
           /\ (Done /\ hweResult = "returned") => Len(outbox) = 1
           /\ \A i \in 1..Len(outbox) :
                /\ outbox[i].to = userEmail
                /\ outbox[i].category = "payment_failed"
                /\ outbox[i].path = "/notifications/subscription/payment-failed"
                /\ outbox[i].payload.email = userEmail
                /\ event.inv.present =>
                    /\ outbox[i].payload.paymentData.amountDue
                          = [known |-> TRUE, num |-> event.inv.amount_due, den |-> 100]
                    /\ outbox[i].payload.paymentData.currency = event.inv.currency

----------------------------------------------------------------------------
(* Properties of sendSubscriptionNotification *)

\* the delivery attempts of the call: each attemptSend starts with the probe
NotifyAttempts ==
    {i \in 1..Len(calls) : calls[i].svc = "notification" /\ calls[i].op = "GET /health"}

\* the error of an attempt is a connection-level one (refused, timeout, name
\* resolution, abort), met by the probe or by the POST
ConnectionLevel(kind) == \E c \in ConnCodes : kind = c \/ kind = "inaccessible: " \o c
\* the service answered the probe or the POST with an HTTP error status
AnsweredWithError(kind) == kind = "HTTP" \/ kind = "inaccessible: HTTP"

\* an email that is a non-empty string containing '@'
C18_WellFormed(e) ==
    e.isString /\ e.chars # <<>> /\ \E i \in DOMAIN e.chars : e.chars[i] = "@"

\* the categories of the notification enum
C20_Categories == {"new", "renewed", "cancelled", "payment_failed",
                   "cancellation_scheduled", "reactivated", "updated", "ended"}

\* C15 (as claimed): when sendSubscriptionNotification failed and the error of
\* its last attempt was a connection-level one (every earlier attempt was
\* retried, hence failed with such an error too), the retries were exhausted.
C15_RetriesUntilBound ==
    (nres = "failed" /\ ConnectionLevel(attemptError)) => currentRetry = maxRetries

\* C16 (as claimed): one call makes at most 3 delivery attempts.
C16_AtMostThreeAttempts == Cardinality(NotifyAttempts) <= 3

\* C16 (amended): one call makes at most maxRetries + 1 = 4 delivery attempts,
\* the first one and at most maxRetries retries, each retry after one backoff
\* wait.
C16_AtMostFourAttempts ==
    /\ Cardinality(NotifyAttempts) <= maxRetries + 1
    /\ currentRetry <= maxRetries
    /\ Len(waits) = currentRetry
    /\ nres \in {"running", "sent"} \/ (nres = "failed" /\ calls # <<>>)
          => Cardinality(NotifyAttempts) = currentRetry + (IF pc = "n_probe" THEN 0 ELSE 1)

C16_Witness ==
    /\ nres = "failed"
    /\ Cardinality(NotifyAttempts) = 4
    /\ currentRetry = 3
    /\ waits = <<1000, 2000, 4000>>

\* C17: an attempt that the notification service answers with an HTTP error
\* ends the call: no backoff wait, no further attempt, and that error is
\* thrown; when it was the first attempt, the call made exactly one attempt
\* and waited for no delay.
C17_HttpErrorNotRetried ==
    [][(calls' # calls /\ AnsweredWithError(attemptError'))
        => /\ nres' = "failed"
           /\ hweResult' = "threw"
           /\ exc' = attemptError'
           /\ pc' \notin {"n_probe", "n_post"}
           /\ waits' = waits
           /\ currentRetry' = currentRetry
           /\ currentRetry = 0 => (Cardinality(NotifyAttempts') = 1 /\ waits' = <<>>)]_vars

C17_Witness ==
    /\ nres = "failed"
    /\ attemptError = "HTTP"
    /\ exc = "HTTP"
    /\ Cardinality(NotifyAttempts) = 1
    /\ Len(calls) = 2
    /\ waits = <<>>

\* C18: a call with an email that is empty, not a string or without '@' makes
\* no outbound call and waits for no backoff, and once it has run it has
\* thrown.
C18_InvalidEmailFailsFast ==
    ~C18_WellFormed(userEmail)
        => /\ calls = <<>>
           /\ outbox = <<>>
           /\ waits = <<>>
           /\ currentRetry = 0
           /\ pc \notin {"n_probe", "n_post"}
           /\ pc # "notify" => (nres = "failed" /\ hweResult = "threw" /\ exc = "InvalidEmail")

C18_Witness ==
    /\ pc # "notify"
    /\ userEmail = NoAtEmail
    /\ nres = "failed"
    /\ exc = "InvalidEmail"

\* C19: a call with a category outside the enum makes no outbound call and
\* waits for no backoff, and once it has run it has thrown.
C19_UnknownCategoryFailsFast ==
    ntype \notin C20_Categories
        => /\ calls = <<>>
           /\ outbox = <<>>
           /\ waits = <<>>
           /\ currentRetry = 0
           /\ pc \notin {"n_probe", "n_post"}
           /\ pc # "notify" => (nres = "failed" /\ hweResult = "threw")

C19_Witness ==
    /\ pc # "notify"
    /\ ntype = "bogus"
    /\ C18_WellFormed(userEmail)
    /\ nres = "failed"
    /\ exc = "UnknownType"

\* C20 (as claimed): a call with a well-formed email and any of the eight
\* categories of the enum is not rejected as an unknown type.
C20_EveryCategoryAccepted ==
    (pc # "notify" /\ C18_WellFormed(userEmail) /\ ntype \in C20_Categories)
        => exc # "UnknownType"

----------------------------------------------------------------------------
(* Properties of the backoff and of the calls to the database service *)

RECURSIVE C23_Sum(_)
C23_Sum(seq) == IF seq = <<>> THEN 0 ELSE seq[1] + C23_Sum(Tail(seq))

\* C23: the wait before the n-th retry is 1000 * 2^(n-1) ms, one wait per
\* retry, so the time waited is 1000 * (2^k - 1) ms after k retries: 7000 ms
\* when the dispatch fails with its retries exhausted.
C23_BackoffSeries ==
    /\ Len(waits) = currentRetry
    /\ \A n \in 1..Len(waits) : waits[n] = 1000 * 2 ^ (n - 1)
    /\ C23_Sum(waits) = 1000 * (2 ^ currentRetry - 1)
    /\ (nres = "failed" /\ currentRetry = maxRetries) => C23_Sum(waits) = 7000

C23_Witness ==
    /\ nres = "failed"
    /\ currentRetry = maxRetries
    /\ Len(waits) = 3
    /\ C23_Sum(waits) = 7000

\* C24 (as claimed): when the last failed call to the database service of a
\* paid-invoice event failed because the service could not be reached, the
\* event is not acknowledged as a success: the error has left
\* handleWebhookEvent and the route answers 500.
C24_DbUnreachablePropagates ==
    (Done /\ IsInvoicePaid /\ dbError = "unreachable")
        => (hweResult = "threw" /\ responses = <<Response(500, "error")>>)

\* C25: for one delivered event each database write is issued at most once,
\* failed or not, and backoff waits occur only between the attempts of the
\* notification dispatch.
C25_NoDbWriteRetried ==
    /\ Cardinality(CallsOf("POST /subscriptions")) <= 1
    /\ Cardinality(CallsOf("PUT /users/subscription")) <= 1
    /\ waits # <<>> => (nres # "none" /\ Len(waits) <= Cardinality(NotifyAttempts))

C25_Witness ==
    /\ Done
    /\ IsCheckout
    /\ \E i \in 1..Len(calls) : calls[i] = Call("db", "POST /subscriptions", FALSE)
    /\ Cardinality(CallsOf("POST /subscriptions")) = 1
    /\ nres = "sent"

\* the update of the user projection failed: the PUT of the deleted handler,
\* or the lookup that starts the update of the checkout handler (its second
\* GET /users/email)
C26_UserUpdateFailed ==
    \/ IsDeleted /\ \E i \in 1..Len(calls) : calls[i] = Call("db", "PUT /users/subscription", FALSE)
    \/ /\ IsCheckout
       /\ Cardinality(CallsOf("GET /users/email")) = 2
       /\ \E i \in CallsOf("GET /users/email") :
            ~calls[i].ok /\ \A k \in CallsOf("GET /users/email") : k <= i

\* C26 (as claimed): in the checkout and deleted handlers, once the update of
\* the user projection failed, the handler has not ended before its
\* notification was dispatched, and when that notification was delivered the
\* processing succeeded.
C26_UserUpdateFailureSwallowed ==
    (C26_UserUpdateFailed /\ pc \in {"respond", "done"})
        => /\ nres \in {"sent", "failed"}
           /\ ntype \in {"new", "ended"}
           /\ nres = "sent" => hweResult = "returned"
           /\ (Done /\ nres = "sent") => responses = <<Response(200, "received")>>

\* C26 as amended: once the update of the user projection failed, the handler
\* has not ended before it reached its notification: the notification was
\* dispatched, except in the checkout handler when the subscription's items
\* has no data, where the data of the notification cannot be built, no
\* notification is dispatched and the handler returns; and when the
\* notification was delivered or could not be built the processing succeeded.
C26_UpdateFailureReachesNotification ==
    (C26_UserUpdateFailed /\ pc \in {"respond", "done"})
        => IF IsCheckout /\ subscription.present /\ subscription.items = "nodata"
           THEN /\ nres = "none"
                /\ \A i \in 1..Len(calls) : calls[i].svc # "notification"
                /\ hweResult = "returned"
                /\ Done => responses = <<Response(200, "received")>>
           ELSE /\ nres \in {"sent", "failed"}
                /\ ntype \in {"new", "ended"}
                /\ nres = "sent" => hweResult = "returned"
                /\ (Done /\ nres = "sent") => responses = <<Response(200, "received")>>

C26_Witness ==
    /\ Done
    /\ IsDeleted
    /\ calls # <<>>
    /\ calls[1] = Call("db", "PUT /users/subscription", FALSE)
    /\ dbError = "timeout"
    /\ nres = "sent"
    /\ responses = <<Response(200, "received")>>

\* C27: when the database service answered the user update of a
\* subscription-deleted event with an error status (not found), the handler
\* throws only if its notification fails; with the notification delivered the
\* event is acknowledged.
C27_DeletedNotFoundAcknowledged ==
    (IsDeleted /\ dbError = "status" /\ pc \in {"respond", "done"})
        => /\ hweResult = "threw" => nres = "failed"
           /\ nres = "sent" => hweResult = "returned"
           /\ (Done /\ nres = "sent") => responses = <<Response(200, "received")>>

C27_Witness ==
    /\ Done
    /\ IsDeleted
    /\ dbError = "status"
    /\ dbUser.isSubscribed
    /\ Len(outbox) = 1
    /\ responses = <<Response(200, "received")>>

----------------------------------------------------------------------------
(* Properties of a second delivery of the same event *)

\* the second delivery has ended
Replayed == past # <<>> /\ pc = "done"
\* the provider and the database service answered the second delivery as
\* they answered the first
SameAnswers == Answers = past[1].answers /\ subscription = past[1].subscription
\* the (status, isActive, autoRenew, endDate) tuples of the records that
\* carry a provider subscription id
TuplesOf(subs, id) ==
    {<<subs[i].status, subs[i].isActive, subs[i].autoRenew, subs[i].endDate>> :
        i \in {k \in 1..Len(subs) : subs[k].stripeSubscriptionId = id}}

\* C21: after a second delivery of the same checkout-completed event that
\* got the same answers as the first, the records keyed by the provider
\* subscription id carry the (status, isActive, autoRenew, endDate) tuple
\* they carried after the first delivery.
C21_CheckoutReplayIdempotent ==
    (Replayed /\ IsCheckout /\ SameAnswers)
        => \A id \in {"sub_1"} : TuplesOf(dbSubs, id) = TuplesOf(past[1].subs, id)

C21_Witness ==
    /\ Replayed
    /\ IsCheckout
    /\ SameAnswers
    /\ ~req.body.subMock.present
    /\ Cardinality(CallsOf("POST /subscriptions")) = 1
    /\ AllCallsSucceeded
    /\ Len(dbSubs) = 2
    /\ TuplesOf(dbSubs, "sub_1") = {<<"past_due", FALSE, TRUE, DateOf(40)>>}

\* the writes to the database service a delivery issued, answered or not
WritesIn(cs) == SelectSeq(cs, LAMBDA c : IsDbWrite(c))

\* C28: a second delivery of the same event is not suppressed: its handler
\* is invoked again and, given the same answers, it issues the database
\* writes the first delivery issued and dispatches its notification as the
\* first did; every accepted write and notification adds to the stores.
C28_NoDeduplication ==
    (past # <<>> /\ pc \in {"respond", "done"})
        => /\ invoked = past[1].invoked
           /\ invoked # <<>>
           /\ SameAnswers =>
                /\ WritesIn(calls) = WritesIn(past[1].answers)
                /\ (nres = "none") = (past[1].nres = "none")
                /\ nres = "sent" => Len(outbox) = past[1].sent + 1
           /\ Len(dbSubs) = Len(past[1].subs)
                + Cardinality({i \in CallsOf("POST /subscriptions") : calls[i].ok})

C28_Witness ==
    /\ Replayed
    /\ IsCheckout
    /\ Verifies(req)
    /\ Len(past[1].subs) = 1
    /\ Len(dbSubs) = 2
    /\ dbSubs[1].stripeSubscriptionId = dbSubs[2].stripeSubscriptionId
    /\ past[1].sent = 1
    /\ Len(outbox) = 2
    /\ responses = <<Response(200, "received")>>
    /\ past[1].status = 200

----------------------------------------------------------------------------
(* Properties of createSubscriptionSession *)

LowerChar(c) ==
    CASE c = "A" -> "a" [] c = "E" -> "e" [] c = "H" -> "h" [] c = "L" -> "l"
      [] c = "M" -> "m" [] c = "N" -> "n" [] c = "O" -> "o" [] c = "R" -> "r"
      [] c = "T" -> "t" [] c = "Y" -> "y" [] OTHER -> c
\* planType names this plan, letter case set aside
Names(planType, plan) ==
    /\ Len(planType) = Len(plan)
    /\ \A i \in 1..Len(plan) : LowerChar(planType[i]) = plan[i]
\* a price id is configured for the plan that planType names
C22_Configured ==
    \/ Names(sess.planType, <<"m", "o", "n", "t", "h", "l", "y">>) /\ sess.env.monthly # "undefined"
    \/ Names(sess.planType, <<"y", "e", "a", "r", "l", "y">>) /\ sess.env.yearly # "undefined"

\* C22: once the plan lookup is over, a planType without a configured price
\* id has made the call fail with the invalid-plan error, no customer and no
\* checkout session created; with a configured planType and no customer id
\* the call creates a customer and, the provider accepting both creations,
\* returns that customer's id.
C22_InvalidPlanOrNewCustomer ==
    /\ (sess.pc # "plan" /\ ~C22_Configured)
        => /\ sess.pc = "threw"
           /\ sess.error = "Plan d'abonnement non valide"
           /\ calls = <<>>
    /\ (sess.pc \in {"returned", "threw"} /\ C22_Configured /\ sess.arg = "null")
        => /\ calls # <<>>
           /\ calls[1].op = "customers.create"
           /\ AllCallsSucceeded
                => /\ sess.pc = "returned"
                   /\ Len(calls) = 2
                   /\ sess.result = [customerId |-> "cus_new", sessionId |-> "cs_1",
                                     url |-> "url_1"]
    /\ sess.pc = "returned" => C22_Configured

C22_Witness ==
    /\ sess.pc = "returned"
    /\ sess.planType = <<"m", "o", "n", "t", "h", "l", "y">>
    /\ sess.env = [monthly |-> "price_1", yearly |-> "undefined"]
    /\ sess.arg = "null"
    /\ sess.result.customerId = "cus_new"

----------------------------------------------------------------------------
(* Properties of two requests processed concurrently *)

BothDone == parked.present /\ pc = "done" /\ parked.pc = "done"
Accepted(f, op) == \E i \in 1..Len(f.calls) : f.calls[i] = Call("db", op, TRUE)

\* What processing one event alone does to the stores, given the answers the
\* request of frame f got: the record a checkout posts, the user fields a
\* deletion or a paid invoice puts.
AloneOn(st, f) ==
    CASE f.event.type = "checkout.session.completed" /\ Accepted(f, "POST /subscriptions") ->
            [st EXCEPT !.subs = Append(@, subscriptionData(f.subscription, f.userId))]
      [] f.event.type = "customer.subscription.deleted" /\ Accepted(f, "PUT /users/subscription") ->
            [st EXCEPT !.user = UserRecord(FALSE, "none", NowPlus(0))]
      [] f.event.type = "invoice.paid" /\ Accepted(f, "PUT /users/subscription") ->
            [st EXCEPT !.user = [@ EXCEPT !.subscriptionEndDate = NowPlus(2592000)]]
      [] OTHER -> st

\* C29: when two concurrently processed events have both ended, the user
\* record and the subscription records are those that processing the one
\* event and then the other, in one of the two orders, leaves.
C29_SomeSerialOrder ==
    BothDone =>
        \E st \in ConcurrentStores :
            [user |-> dbUser, subs |-> dbSubs]
                \in {AloneOn(AloneOn(st, Running), parked),
                     AloneOn(AloneOn(st, parked), Running)}

\* the deletion wrote the user record before the paid invoice did, and its
\* notification was accepted after the invoice email was
C29_Witness ==
    /\ BothDone
    /\ event.type = "customer.subscription.deleted"
    /\ parked.event.type = "invoice.paid"
    /\ Accepted(Running, "PUT /users/subscription")
    /\ Accepted(parked, "PUT /users/subscription")
    /\ dbUser = UserRecord(FALSE, "none", NowPlus(2592000))
    /\ Len(outbox) = 2
    /\ outbox[1].category = "invoice"

ProbesOf(f) ==
    Cardinality({i \in 1..Len(f.calls) :
        f.calls[i].svc = "notification" /\ f.calls[i].op = "GET /health"})

\* the dispatch of frame f counts its own attempts and waits only
OwnRetries(f) ==
    /\ Len(f.waits) = f.currentRetry
    /\ f.currentRetry <= 3
    /\ \A n \in 1..Len(f.waits) : f.waits[n] = 1000 * 2 ^ (n - 1)
    /\ f.ntype \in {"new", "ended"} =>
        /\ f.nres = "running" => ProbesOf(f) \in {f.currentRetry, f.currentRetry + 1}
        /\ f.nres \in {"sent", "failed"} => ProbesOf(f) = f.currentRetry + 1
    /\ f.ntype = "none" => f.currentRetry = 0 /\ ProbesOf(f) = 0

\* C30: with two requests interleaved, the retry count of each notification
\* dispatch is the number of retries that dispatch made itself: one backoff
\* wait per retry, of 1000 * 2^(n-1) ms before the n-th, and one attempt more
\* than retries when it ends, in the request that runs and in the other.
C30_RetryCounterPrivate ==
    parked.present => OwnRetries(Running) /\ OwnRetries(parked)

\* two dispatches in flight at once, at different retry counts
C30_Witness ==
    /\ parked.present
    /\ nres = "running"
    /\ parked.nres = "running"
    /\ currentRetry = 2
    /\ parked.currentRetry = 1
    /\ waits = <<1000, 2000>>
    /\ parked.waits = <<1000>>

\* a customers.create call was issued
C32_CustomerCreateCalled == \E i \in 1..Len(calls) : calls[i].op = "customers.create"

\* C32: once createSubscriptionSession is past the creation of the customer,
\* a billing customer was asked for exactly when no customer id was supplied
\* and the plan is configured; with an id supplied none is asked for, the
\* checkout session is asked for that id and the returned customerId is it.
C32_CustomerCreatedIffNoneSupplied ==
    /\ sess.pc \in {"session", "returned", "threw"}
        => (C32_CustomerCreateCalled <=> (sess.arg = "null" /\ C22_Configured))
    /\ sess.arg # "null"
        => /\ ~C32_CustomerCreateCalled
           /\ sess.sessionFor \in {"undefined", sess.arg}
           /\ calls # <<>> => sess.sessionFor = sess.arg
           /\ sess.pc = "returned" => sess.result.customerId = sess.arg

C32_Witness ==
    /\ sess.pc = "returned"
    /\ sess.arg = "cus_1"
    /\ calls = <<Call("stripe", "checkout.sessions.create", TRUE)>>
    /\ sess.sessionFor = "cus_1"
    /\ sess.result.customerId = "cus_1"

----------------------------------------------------------------------------
(* Properties of the attempts of one notification dispatch *)

IsProbe(c) == c.svc = "notification" /\ c.op = "GET /health"
IsNotificationPost(c) == c.svc = "notification" /\ c.op # "GET /health"

\* C33: every notification POST of a dispatch comes right after a probe
\* GET /health that succeeded; a failed probe is followed by no POST; the
\* call after a failed POST, when there is one, is the probe of the retry.
C33_ProbeBeforeEachPost ==
    \A i \in 1..Len(calls) :
        /\ IsNotificationPost(calls[i])
            => /\ i > 1
               /\ IsProbe(calls[i - 1])
               /\ calls[i - 1].ok
        /\ (IsProbe(calls[i]) /\ ~calls[i].ok /\ i < Len(calls))
            => ~IsNotificationPost(calls[i + 1])
        /\ (IsNotificationPost(calls[i]) /\ i < Len(calls))
            => IsProbe(calls[i + 1])

\* a retry whose probe failed after the first attempt's POST had failed
C33_Witness ==
    /\ nres = "failed"
    /\ Len(calls) = 3
    /\ IsProbe(calls[1]) /\ calls[1].ok
    /\ IsNotificationPost(calls[2]) /\ ~calls[2].ok
    /\ IsProbe(calls[3]) /\ ~calls[3].ok
    /\ currentRetry = 1

\* C34: a POST answered successfully is the last call of the dispatch, the
\* dispatch has then ended as sent, and the notification service accepted
\* one notification.
C34_StopsAtFirstSuccess ==
    /\ \A i \in 1..Len(calls) :
        (IsNotificationPost(calls[i]) /\ calls[i].ok)
            => /\ i = Len(calls)
               /\ nres = "sent"
               /\ Len(outbox) = 1
    /\ Cardinality({i \in 1..Len(calls) : IsNotificationPost(calls[i]) /\ calls[i].ok}) <= 1
    /\ Len(outbox) <= 1

\* success at the second attempt
C34_Witness ==
    /\ nres = "sent"
    /\ currentRetry = 1
    /\ Len(calls) = 4
    /\ IsNotificationPost(calls[2]) /\ ~calls[2].ok
    /\ IsNotificationPost(calls[4]) /\ calls[4].ok
    /\ Len(outbox) = 1

----------------------------------------------------------------------------
(* Properties of handleSubscriptionUpdated and handleCheckoutSessionCompleted *)

\* the event's subscription is neither set to cancel nor active
C36_NothingToTell == ~event.sub.cancel_at_period_end /\ event.sub.status # "active"

\* C36: a customer.subscription.updated event has at most one notification
\* dispatched (once a dispatch has begun no other begins, and at most one
\* notification is accepted), of type 'cancellation_scheduled' or
\* 'reactivated'; with cancel_at_period_end false and a status other than
\* 'active' no dispatch begins and no call goes to the notification service.
C36_UpdatedAtMostOneNotification ==
    /\ [](IsUpdated =>
            /\ Len(outbox) <= 1
            /\ ntype \in {"none", "cancellation_scheduled", "reactivated"}
            /\ C36_NothingToTell =>
                /\ ntype = "none"
                /\ nres = "none"
                /\ outbox = <<>>
                /\ \A i \in 1..Len(calls) : calls[i].svc # "notification")
    /\ [][(IsUpdated /\ nres # "none") => (pc' = "notify" => pc = "notify")]_vars

C36_Witness ==
    /\ Done
    /\ IsUpdated
    /\ Verifies(req)
    /\ event.sub = Sub("past_due", FALSE)
    /\ calls = <<Call("stripe", "customers.retrieve", TRUE)>>
    /\ nres = "none"
    /\ responses = <<Response(200, "received")>>

\* the checkout handler resolved the user, then the gateway failed to give
\* the subscription detail or the database service refused the record
C35_RecordStepFailed ==
    /\ IsCheckout
    /\ userId # "none"
    /\ \E i \in 1..Len(calls) :
        \/ calls[i] = Call("stripe", "subscriptions.retrieve", FALSE)
        \/ calls[i] = Call("db", "POST /subscriptions", FALSE)

\* C35: when that step failed, the handler has not ended before it began the
\* update of the user projection (the lookup GET /users/email was issued a
\* second time) and dispatched the 'new' notification; handleWebhookEvent
\* returns and the route answers 200.
C35_RecordFailureDoesNotAbort ==
    (C35_RecordStepFailed /\ pc \in {"respond", "done"})
        => /\ Cardinality(CallsOf("GET /users/email")) = 2
           /\ ntype = "new"
           /\ nres \in {"sent", "failed"}
           /\ hweResult = "returned"
           /\ Done => responses = <<Response(200, "received")>>

C35_Witness ==
    /\ Done
    /\ C35_RecordStepFailed
    /\ Verifies(req)
    /\ calls[3] = Call("stripe", "subscriptions.retrieve", FALSE)
    /\ subscription = NoSub
    /\ CallsOf("POST /subscriptions") = {}
    /\ nres = "sent"
    /\ responses = <<Response(200, "received")>>

----------------------------------------------------------------------------
(* Properties of a redelivered customer.subscription.deleted event *)

C37_Unsubscribed(user) == ~user.isSubscribed /\ user.subscriptionId = "none"
C37_UpdateAccepted(cs) ==
    \E i \in 1..Len(cs) : cs[i] = Call("db", "PUT /users/subscription", TRUE)

\* C37: once a processing of a customer.subscription.deleted event had its
\* user update accepted, the user has isSubscribed false and no subscription
\* id, and a later processing of the same event, whether its own update is
\* accepted or not, leaves these two fields as the first processing left them.
C37_DeletedReplayKeepsUnsubscribed ==
    (IsDeleted /\ pc \in {"sd_notify", "notify", "n_probe", "n_post", "respond", "done"})
        => /\ C37_UpdateAccepted(calls) => C37_Unsubscribed(dbUser)
           /\ (past # <<>> /\ C37_UpdateAccepted(past[1].answers))
                => /\ C37_Unsubscribed(dbUser)
                   /\ dbUser.isSubscribed = past[1].user.isSubscribed
                   /\ dbUser.subscriptionId = past[1].user.subscriptionId

\* the first delivery failed on its 'ended' notification and was answered
\* 500, the event came again and both user updates were accepted
C37_Witness ==
    /\ Replayed
    /\ IsDeleted
    /\ past[1].nres = "failed"
    /\ past[1].status = 500
    /\ C37_UpdateAccepted(past[1].answers)
    /\ C37_UpdateAccepted(calls)
    /\ C37_Unsubscribed(dbUser)
    /\ dbUser.subscriptionEndDate # past[1].user.subscriptionEndDate
    /\ responses = <<Response(200, "received")>>

----------------------------------------------------------------------------
(* Properties of cancelSubscription *)

C38_Called(op, ok) == \E i \in 1..Len(calls) : calls[i].op = op /\ calls[i].ok = ok

\* C38: the PATCH is the call right after a successful provider deletion,
\* itself right after a successful lookup, and a record is 'cancelled' only
\* then; when the lookup or the provider deletion failed the call has ended
\* with no PATCH, no call to the notification service, the stores untouched
\* and the answer 500; the answer 200 is given only after lookup, provider
\* deletion, PATCH, user lookup and notification succeeded in this order.
C38_PatchOnlyAfterProviderDeletion ==
  cancel.fn = "cancelSubscription" =>
    /\ \A i \in 1..Len(calls) :
        calls[i].op = "PATCH /api/subscriptions"
            => /\ i = 3
               /\ calls[1] = Call("db", "GET /api/subscriptions", TRUE)
               /\ calls[2] = Call("stripe", "subscriptions.del", TRUE)
    /\ (\E i \in 1..Len(dbSubs) : dbSubs[i].status = "cancelled")
            => C38_Called("subscriptions.del", TRUE)
    /\ (C38_Called("GET /api/subscriptions", FALSE) \/ C38_Called("subscriptions.del", FALSE))
            => /\ cancel.pc = "done"
               /\ responses = <<Response(500, "error")>>
               /\ \A i \in 1..Len(calls) :
                    calls[i].op # "PATCH /api/subscriptions" /\ calls[i].svc # "notification"
               /\ dbSubs \in CancelStores
               /\ outbox = <<>>
    /\ (responses # <<>> /\ responses[1].status = 200)
            => /\ calls = <<Call("db", "GET /api/subscriptions", TRUE),
                            Call("stripe", "subscriptions.del", TRUE),
                            Call("db", "PATCH /api/subscriptions", TRUE),
                            Call("db", "GET /api/users", TRUE),
                            Call("notification",
                                 "POST /notifications/subscription/cancelled", TRUE)>>
               /\ dbSubs[cancel.id].status = "cancelled"
               /\ ~dbSubs[cancel.id].isActive
               /\ Len(outbox) = 1
    /\ Len(responses) <= 1

C38_Witness ==
    /\ cancel.fn = "cancelSubscription"
    /\ cancel.pc = "done"
    /\ responses = <<Response(200, "cancelled")>>
    /\ cancel.subscription.status = "active"
    /\ dbSubs[1].status = "cancelled"
    /\ ~dbSubs[1].isActive
    /\ Len(outbox) = 1
    /\ outbox[1].payload.subscriptionData.status = "cancelled"

----------------------------------------------------------------------------
(* Properties of the start of the process *)

C39_ProvisionedIds == {ProvisionedPlans.monthly, ProvisionedPlans.yearly}
C39_SessionRequested ==
    \E i \in 1..Len(calls) : calls[i].op = "checkout.sessions.create"

\* C39: the price of every checkout session createSubscriptionSession
\* requests is the id SUBSCRIPTION_PLANS captured for the plan type when
\* stripeService was loaded, never an id createStripePlans provisioned
\* afterwards; a plan type without a captured id is refused as invalid even
\* when the environment holds a provisioned id for it by then; and the
\* captured ids do not change once loaded.
C39_PriceIsTheOneCapturedAtLoad ==
    /\ [](sess.pc # "none" =>
            /\ boot.pc = "listening"
            /\ boot.env = ProvisionedPlans
            /\ C39_SessionRequested
                => /\ sess.price = PlanIdOf(boot.plans, sess.planType)
                   /\ sess.price # "undefined"
                   /\ sess.price \notin C39_ProvisionedIds
            /\ (sess.pc \in {"returned", "threw"}
                    /\ PlanIdOf(boot.plans, sess.planType) = "undefined")
                => /\ sess.error = "Plan d'abonnement non valide"
                   /\ ~C39_SessionRequested)
    /\ [][boot.pc # "load" => boot'.plans = boot.plans]_vars

C39_Witness ==
    /\ sess.pc = "returned"
    /\ toUpperCase(sess.planType) = <<"M", "O", "N", "T", "H", "L", "Y">>
    /\ sess.price = "price_1"
    /\ boot.plans.monthly = "price_1"
    /\ boot.env.monthly = "price_2"

----------------------------------------------------------------------------
(* Termination *)

C31_Settled == nres \in {"sent", "failed"}

\* C31: when every outbound call returns or fails, every request received
\* is answered, exactly once, and by then the call of handleWebhookEvent it
\* made has returned or thrown and the call of sendSubscriptionNotification
\* its handler made has ended, delivered or failed; a failure that leaves
\* sendSubscriptionNotification carries the error of its last attempt.
C31_EveryRequestAnswered ==
    /\ (req # NoReq) ~> (Done /\ Len(responses) = 1)
    /\ [](Done => /\ hweCalled => hweResult # "pending"
                  /\ nres # "none" => C31_Settled
                  /\ ntype # "none" => nres # "none")
    /\ [][(nres = "running" /\ nres' = "failed" /\ ~NotificationErrorSwallowed(Handler))
            => (hweResult' = "threw" /\ exc' = attemptError')]_vars

C31_Witness ==
    /\ Done
    /\ Len(responses) = 1
    /\ nres = "failed"
    /\ currentRetry = maxRetries
    /\ Cardinality(NotifyAttempts) = maxRetries + 1
    /\ hweResult = "threw"

====
